---- MODULE Spec2Model ----
(***************************************************************************)
(* A model of the rosedblabs/wal write-ahead log: segment files made of    *)
(* fixed-size blocks, records framed as chunks with a 7-byte header, a WAL *)
(* that owns one active segment and a map of older segments, a block cache *)
(* and a multi-segment reader.                                             *)
(*                                                                         *)
(* Files are modelled byte by byte.  blockSize is 32 KiB in the source; the*)
(* model keeps the 7-byte chunk header and scales the block to 16 bytes so *)
(* that every block-boundary case (tail of 0, 1..6, exactly 7 and more     *)
(* bytes, records of one, two and three chunks) is reached by payloads of  *)
(* a few bytes.  All payload lengths are given relative to blockSize.      *)
(***************************************************************************)
EXTENDS Integers, Sequences, FiniteSets, TLC

\* ------------------------------------------------------------------------
\* Program constants
\* ------------------------------------------------------------------------
ChunkTypeFull == 0
ChunkTypeFirst == 1
ChunkTypeMiddle == 2
ChunkTypeLast == 3

chunkHeaderSize == 7

\* 32 * 1024 in the source, scaled (see the module comment).
blockSize == 16

initialSegmentFileID == 1

\* ------------------------------------------------------------------------
\* Bounds of the model
\* ------------------------------------------------------------------------
\* successful Write calls in one behaviour
MaxWrites == 2
\* highest segment id a roll-over may create
MaxSegments == 3
\* Close/Delete followed by Open, at most this many times
MaxReopen == 1

\* Calls in which the file system fails an fsync
MaxFaults == 1

\* Payloads staged for one WriteAll
MaxBatch == 2

\* Records written and staged, all in all
MaxRecords == 3

\* ------------------------------------------------------------------------
\* Fixed-width integers and bytes
\* ------------------------------------------------------------------------
\* The range of a uint32.  It is 2^32 in the source; TLC's integers end at
\* 2^31 - 1, so the word is scaled with the block (2^32 / 32 KiB = 2^21 / 16):
\* a segment of 2^17 blocks is where uint32 byte offsets wrap around.
uint32Range == 2 ^ 21

U32(x) == x % uint32Range

U16(x) == x % 65536

Min(a, b) == IF a < b THEN a ELSE b

\* binary.LittleEndian.PutUint16 / PutUint32: n bytes of v, least significant first
LittleEndian(v, n) == [i \in 1..n |-> (v \div (256 ^ (i - 1))) % 256]

\* binary.LittleEndian.Uint16 / Uint32 of the byte sequence b
FromLittleEndian(b) ==
    LET RECURSIVE val(_)
        val(i) == IF i > Len(b) THEN 0 ELSE b[i] * (256 ^ (i - 1)) + val(i + 1)
    IN val(1)

Zeros(n) == [i \in 1..n |-> 0]

\* s[from+1 .. to] with Go's half-open slice indices s[from:to]
Slice(s, from, to) == SubSeq(s, from + 1, to)

\* crc32.ChecksumIEEE abstracted as a position-weighted sum over the bytes:
\* like the CRC it is not zero on an all-zero input and it changes when a
\* single byte changes.
ChecksumIEEE(b) ==
    LET RECURSIVE sum(_)
        sum(i) == IF i > Len(b) THEN 0 ELSE i * b[i] + sum(i + 1)
    IN U32(Len(b) + 1 + sum(1))

\* ------------------------------------------------------------------------
\* Payloads.  The k-th payload of a behaviour has distinct bytes that depend
\* on k, so that a lost, repeated, truncated or reordered byte is visible.
\* ------------------------------------------------------------------------
Payload(k, n) == [i \in 1..n |-> (32 * k + i) % 256]

\* ------------------------------------------------------------------------
\* Segment: one append-only file.  A segment object is the record
\*   [id, currentBlockNumber, currentBlockSize, closed];
\* its file is a sequence of bytes kept in the variable files.
\* ------------------------------------------------------------------------
NoPosition == [SegmentId |-> 0, BlockNumber |-> 0, ChunkOffset |-> 0, ChunkSize |-> 0]

\* The segment object openSegmentFile returns for a file that holds offset bytes
\* (offset is what fd.Seek(0, io.SeekEnd) returns).
openSegmentFile(id, offset) ==
    [id |-> id,
     currentBlockNumber |-> U32(offset \div blockSize),
     currentBlockSize |-> U32(offset % blockSize),
     closed |-> FALSE]

\* segment.Size: the product and the sum are uint32 operations
Size(seg) == U32(U32(seg.currentBlockNumber * blockSize) + seg.currentBlockSize)

\* The bytes writeInternal puts in buf: checksum(4) | length(2) | type(1) | data
encodeChunk(data, chunkType) ==
    LET body == LittleEndian(U16(Len(data)), 2) \o <<chunkType>> \o data
    IN LittleEndian(ChecksumIEEE(body), 4) \o body

\* writeInternal without the step to a new block when the chunk ends on the
\* block boundary
writeInternalKeepsBlock(seg, file, data, chunkType) ==
    LET file2 == file \o encodeChunk(data, chunkType)
        size2 == U32(seg.currentBlockSize + U32(Len(data)) + chunkHeaderSize)
    IN IF seg.currentBlockSize > blockSize
       THEN [seg |-> seg, file |-> file2, err |-> "panic"]
       ELSE [seg |-> [seg EXCEPT !.currentBlockSize = size2],
             file |-> file2, err |-> "nil"]

\* segment.writeInternal: append the chunk, then move the block counters.
\* The panic test reads currentBlockSize as it is before the update.
writeInternal(seg, file, data, chunkType) ==
    LET file2 == file \o encodeChunk(data, chunkType)
        size2 == U32(seg.currentBlockSize + U32(Len(data)) + chunkHeaderSize)
    IN IF seg.currentBlockSize > blockSize
       THEN [seg |-> seg, file |-> file2, err |-> "panic"]
       ELSE IF size2 = blockSize
            THEN [seg |-> [seg EXCEPT !.currentBlockNumber = U32(@ + 1),
                                      !.currentBlockSize = 0],
                  file |-> file2, err |-> "nil"]
            ELSE [seg |-> [seg EXCEPT !.currentBlockSize = size2],
                  file |-> file2, err |-> "nil"]

\* writePadding that fills the tail but stays in the block
writePaddingSameBlock(seg, file) ==
    IF U32(seg.currentBlockSize + chunkHeaderSize) >= blockSize
    THEN [seg |-> [seg EXCEPT !.currentBlockSize = 0],
          file |-> IF seg.currentBlockSize < blockSize
                   THEN file \o Zeros(blockSize - seg.currentBlockSize)
                   ELSE file]
    ELSE [seg |-> seg, file |-> file]

\* writePadding that pads only when the tail is shorter than a chunk header
writePaddingShortTail(seg, file) ==
    IF U32(seg.currentBlockSize + chunkHeaderSize) > blockSize
    THEN [seg |-> [seg EXCEPT !.currentBlockNumber = U32(@ + 1), !.currentBlockSize = 0],
          file |-> IF seg.currentBlockSize < blockSize
                   THEN file \o Zeros(blockSize - seg.currentBlockSize)
                   ELSE file]
    ELSE [seg |-> seg, file |-> file]

\* The first part of segment.Write: when the block tail cannot hold a chunk
\* header, pad the tail with zeros and start a new block.
writePadding(seg, file) ==
    IF U32(seg.currentBlockSize + chunkHeaderSize) >= blockSize
    THEN [seg |-> [seg EXCEPT !.currentBlockNumber = U32(@ + 1), !.currentBlockSize = 0],
          file |-> IF seg.currentBlockSize < blockSize
                   THEN file \o Zeros(blockSize - seg.currentBlockSize)
                   ELSE file]
    ELSE [seg |-> seg, file |-> file]

\* Does the whole record fit into the current block as one FULL chunk?
fitsInBlock(seg, dataSize) ==
    U32(seg.currentBlockSize + dataSize + chunkHeaderSize) <= blockSize

\* nextChunk with the chunk cut from the start of data on every turn, as if the
\* loop forgot how much it has written
nextChunkFromStart(seg, data, leftSize) ==
    LET dataSize == Len(data)
        chunkSize == Min(U32(blockSize - seg.currentBlockSize - chunkHeaderSize), leftSize)
    IN [chunkSize |-> chunkSize,
        chunk |-> Slice(data, 0, chunkSize),
        chunkType |-> IF leftSize = dataSize THEN ChunkTypeFirst
                      ELSE IF leftSize = chunkSize THEN ChunkTypeLast
                      ELSE ChunkTypeMiddle]

\* One turn of the loop of segment.Write: the size and the type of the next chunk
\* of data when leftSize bytes are still to be written.
nextChunk(seg, data, leftSize) ==
    LET dataSize == Len(data)
        chunkSize == Min(U32(blockSize - seg.currentBlockSize - chunkHeaderSize), leftSize)
        end == Min(dataSize - leftSize + chunkSize, dataSize)
    IN [chunkSize |-> chunkSize,
        chunk |-> Slice(data, dataSize - leftSize, end),
        chunkType |-> IF leftSize = dataSize THEN ChunkTypeFirst
                      ELSE IF leftSize = chunkSize THEN ChunkTypeLast
                      ELSE ChunkTypeMiddle]

\* The loop of segment.Write: chunks are written until nothing is left.
\* writeChunksAfter: the rest of one turn, w being what writeInternal returned.
RECURSIVE writeChunks(_, _, _, _)
RECURSIVE writeChunksAfter(_, _, _)
writeChunks(seg, file, data, leftSize) ==
    IF leftSize <= 0
    THEN [seg |-> seg, file |-> file, err |-> "nil"]
    ELSE LET c == nextChunk(seg, data, leftSize)
         IN writeChunksAfter(writeInternal(seg, file, c.chunk, c.chunkType),
                             data, leftSize - c.chunkSize)

writeChunksAfter(w, data, leftSize) ==
    IF w.err # "nil" THEN w
    ELSE writeChunks(w.seg, w.file, data, leftSize)

\* The chunk_size of a position: the file size after the write minus the file
\* size saved when the start position is recorded (after the padding step).
chunkSizeOf(initialFileSize, newFileSize) == U32(newFileSize - initialFileSize)

\* The end of segment.Write: the position it returns.  p is the segment and
\* the file after the padding step, w what the chunk writes returned.
writeReturn(p, w) ==
    [seg |-> w.seg, file |-> w.file, err |-> w.err,
     position |-> IF w.err # "nil" THEN NoPosition
                  ELSE [SegmentId |-> p.seg.id,
                        BlockNumber |-> p.seg.currentBlockNumber,
                        ChunkOffset |-> p.seg.currentBlockSize,
                        ChunkSize |-> chunkSizeOf(Len(p.file), Len(w.file))]]

\* segment.Write after the padding step: one FULL chunk, or the loop
writeRecord(p, data) ==
    writeReturn(p, IF fitsInBlock(p.seg, U32(Len(data)))
                   THEN writeInternal(p.seg, p.file, data, ChunkTypeFull)
                   ELSE writeChunks(p.seg, p.file, data, U32(Len(data))))

\* segment.Write(data): [seg, file, position, err]
segmentWrite(seg, file, data) ==
    IF seg.closed
    THEN [seg |-> seg, file |-> file, position |-> NoPosition, err |-> "ErrClosed"]
    ELSE writeRecord(writePadding(seg, file), data)

\* ------------------------------------------------------------------------
\* segment.Write by sizes.  What segment.Write does to the block counters and
\* to the length of the file, and the chunks it frames, depend on len(data)
\* only; the operators below are segment.Write with the bytes left out, so
\* that lengths and files of the whole uint32 range and beyond can be given.
\* n is len(data), an int; fileSize is the length of the file, an int64.
\* ------------------------------------------------------------------------
\* segment.writeInternal: buf holds uint32(len(data)) + 7 bytes (a uint32
\* sum); a buf shorter than a header makes buf[4:6] or buf[6] panic
writeInternalSize(seg, fileSize, n) ==
    LET dataSize == U32(n)
        bufSize == U32(dataSize + chunkHeaderSize)
        size2 == U32(seg.currentBlockSize + dataSize + chunkHeaderSize)
    IN IF bufSize < chunkHeaderSize \/ seg.currentBlockSize > blockSize
       THEN [seg |-> seg, fileSize |-> fileSize, err |-> "panic"]
       ELSE IF size2 = blockSize
            THEN [seg |-> [seg EXCEPT !.currentBlockNumber = U32(@ + 1),
                                      !.currentBlockSize = 0],
                  fileSize |-> fileSize + bufSize, err |-> "nil"]
            ELSE [seg |-> [seg EXCEPT !.currentBlockSize = size2],
                  fileSize |-> fileSize + bufSize, err |-> "nil"]

\* The padding step: the counters as in writePadding, the file grown by the
\* padding
writePaddingSize(seg, fileSize) ==
    [seg |-> writePadding(seg, <<>>).seg,
     fileSize |-> fileSize + Len(writePadding(seg, <<>>).file)]

\* A chunk as segment.Write frames it: where its header starts, its type and
\* the number of payload bytes it carries
chunkOf(seg, chunkType, n) ==
    [BlockNumber |-> seg.currentBlockNumber, ChunkOffset |-> seg.currentBlockSize,
     chunkType |-> chunkType, size |-> U32(n)]

\* The loop of segment.Write: [seg, fileSize, chunks, err]
RECURSIVE writeChunkSizes(_, _, _, _, _)
writeChunkSizes(seg, fileSize, chunks, dataSize, leftSize) ==
    IF leftSize <= 0
    THEN [seg |-> seg, fileSize |-> fileSize, chunks |-> chunks, err |-> "nil"]
    ELSE LET chunkSize == Min(U32(blockSize - seg.currentBlockSize - chunkHeaderSize),
                              leftSize)
             chunkType == IF leftSize = dataSize THEN ChunkTypeFirst
                          ELSE IF leftSize = chunkSize THEN ChunkTypeLast
                          ELSE ChunkTypeMiddle
             w == writeInternalSize(seg, fileSize, chunkSize)
         IN IF w.err # "nil"
            THEN [seg |-> w.seg, fileSize |-> w.fileSize, chunks |-> chunks, err |-> w.err]
            ELSE writeChunkSizes(w.seg, w.fileSize,
                                 Append(chunks, chunkOf(seg, chunkType, chunkSize)),
                                 dataSize, leftSize - chunkSize)

\* segment.Write after the padding step, p being what the padding step left.
\* The FULL chunk is handed all of data: writeInternal converts its length
\* once more.
writeRecordSize(p, n) ==
    IF fitsInBlock(p.seg, U32(n))
    THEN LET w == writeInternalSize(p.seg, p.fileSize, n)
         IN [seg |-> w.seg, fileSize |-> w.fileSize, err |-> w.err,
             chunks |-> IF w.err = "nil" THEN <<chunkOf(p.seg, ChunkTypeFull, n)>>
                        ELSE <<>>]
    ELSE writeChunkSizes(p.seg, p.fileSize, <<>>, U32(n), U32(n))

\* segment.Write(data) by sizes: [seg, fileSize, chunks, position, err]
segmentWriteSize(seg, fileSize, n) ==
    IF seg.closed
    THEN [seg |-> seg, fileSize |-> fileSize, chunks |-> <<>>,
          position |-> NoPosition, err |-> "ErrClosed"]
    ELSE LET p == writePaddingSize(seg, fileSize)
             w == writeRecordSize(p, n)
         IN [seg |-> w.seg, fileSize |-> w.fileSize, chunks |-> w.chunks, err |-> w.err,
             position |-> IF w.err # "nil" THEN NoPosition
                          ELSE [SegmentId |-> seg.id,
                                BlockNumber |-> p.seg.currentBlockNumber,
                                ChunkOffset |-> p.seg.currentBlockSize,
                                ChunkSize |-> chunkSizeOf(p.fileSize, w.fileSize)]]

\* ------------------------------------------------------------------------
\* Block cache: an LRU from (segment id, block number) to a block of bytes,
\* kept as a sequence with the most recently used entry first.
\* ------------------------------------------------------------------------
\* The uint64 key of segment.getCacheKey: (segment id << 32) | block number
getCacheKey(id, blockNumber) == id * uint32Range + blockNumber

\* Number of entries of the LRU that Open creates for options.BlockCache bytes
lruSize(blockCacheBytes) ==
    (blockCacheBytes \div blockSize) + (IF blockCacheBytes % blockSize # 0 THEN 1 ELSE 0)

cacheContains(cache, key) == \E i \in 1..Len(cache) : cache[i].key = key

cacheIndex(cache, key) == CHOOSE i \in 1..Len(cache) : cache[i].key = key

\* lru.Get on a hit: the entry moves to the front
cacheGet(cache, key) ==
    LET i == cacheIndex(cache, key)
    IN <<cache[i]>> \o SubSeq(cache, 1, i - 1) \o SubSeq(cache, i + 1, Len(cache))

\* lru.Add: the entry is put in front and the oldest entry is evicted when the
\* cache holds more than capacity entries
cacheAdd(cache, capacity, key, block) ==
    LET without == SelectSeq(cache, LAMBDA e : e.key # key)
        added == <<[key |-> key, block |-> block]>> \o without
    IN IF Len(added) > capacity THEN SubSeq(added, 1, capacity) ELSE added

\* ------------------------------------------------------------------------
\* Segment read path
\* ------------------------------------------------------------------------
\* The positional read of segment.Read: up to blockSize bytes of block
\* blockNumber, trimmed by the file size.  size < 0 makes make([]byte, size) panic.
fileReadBlock(file, blockNumber) ==
    LET segSize == Len(file)
        offset == U32(blockNumber * blockSize)
        size == IF blockSize + offset > segSize THEN segSize - offset ELSE blockSize
    IN IF size < 0
       THEN [buf |-> <<>>, size |-> size, err |-> "panic"]
       ELSE [buf |-> Slice(file, offset, offset + size), size |-> size, err |-> "nil"]

\* The block being written: the one the segment's block counter points at
isActiveBlock(seg, blockNumber) == blockNumber = seg.currentBlockNumber

\* A load that takes every cached buffer and admits every block it reads,
\* whether it is full or not
loadBlockAdmitsAll(seg, file, cache, capacity, blockNumber) ==
    LET key == getCacheKey(seg.id, blockNumber)
    IN IF capacity > 0 /\ cacheContains(cache, key)
       THEN [buf |-> cache[cacheIndex(cache, key)].block,
             size |-> Len(cache[cacheIndex(cache, key)].block),
             err |-> "nil", cache |-> cacheGet(cache, key)]
       ELSE LET r == fileReadBlock(file, blockNumber)
            IN [buf |-> r.buf, size |-> r.size, err |-> r.err,
                cache |-> IF capacity > 0 /\ r.err = "nil"
                          THEN cacheAdd(cache, capacity, key, r.buf)
                          ELSE cache]

\* Load a block: the cached buffer when the block is cached and is not the
\* active block, else a positional read; a block read in full that is not the
\* active block is admitted into the cache.  capacity = 0: no cache.
loadBlock(seg, file, cache, capacity, blockNumber) ==
    LET key == getCacheKey(seg.id, blockNumber)
    IN IF capacity > 0 /\ cacheContains(cache, key) /\ ~isActiveBlock(seg, blockNumber)
       THEN [buf |-> cache[cacheIndex(cache, key)].block, size |-> blockSize,
             err |-> "nil", cache |-> cacheGet(cache, key)]
       ELSE LET r == fileReadBlock(file, blockNumber)
            IN [buf |-> r.buf, size |-> r.size, err |-> r.err,
                cache |-> IF capacity > 0 /\ r.err = "nil" /\ r.size = blockSize
                             /\ ~isActiveBlock(seg, blockNumber)
                          THEN cacheAdd(cache, capacity, key, r.buf)
                          ELSE cache]

\* Decode the chunk at chunkOffset of the block buf: header, length, payload,
\* checksum, type.  A slice beyond the end of buf is a run-time panic.
decodeChunk(buf, chunkOffset) ==
    IF chunkOffset + chunkHeaderSize > Len(buf)
    THEN [err |-> "panic", data |-> <<>>, chunkType |-> 0, end |-> 0]
    ELSE LET header == Slice(buf, chunkOffset, chunkOffset + chunkHeaderSize)
             length == FromLittleEndian(Slice(header, 4, 6))
             start == chunkOffset + chunkHeaderSize
             checkSumEnd == chunkOffset + chunkHeaderSize + length
         IN IF start + length > Len(buf)
            THEN [err |-> "panic", data |-> <<>>, chunkType |-> 0, end |-> 0]
            ELSE LET checksum == ChecksumIEEE(Slice(buf, chunkOffset + 4, checkSumEnd))
                     savedSum == FromLittleEndian(Slice(header, 0, 4))
                 IN [err |-> IF savedSum # checksum THEN "ErrInvalidCRC" ELSE "nil",
                     data |-> Slice(buf, start, start + length),
                     chunkType |-> header[7],
                     end |-> checkSumEnd]

\* The loop of segment.Read: chunks are collected block after block until a
\* FULL or LAST chunk.  endBlock/endOffset: where the last chunk read ends.
\* readChunk: one turn of the loop, b being the block that was loaded.
RECURSIVE readChunks(_, _, _, _, _, _, _)
RECURSIVE readChunk(_, _, _, _, _, _, _)
readChunks(seg, file, cache, capacity, blockNumber, chunkOffset, result) ==
    readChunk(seg, file, capacity, blockNumber, chunkOffset, result,
              loadBlock(seg, file, cache, capacity, blockNumber))

readChunk(seg, file, capacity, blockNumber, chunkOffset, result, b) ==
    LET d == IF b.err # "nil"
             THEN [err |-> b.err, data |-> <<>>, chunkType |-> 0, end |-> 0]
             ELSE decodeChunk(b.buf, chunkOffset)
    IN IF d.err # "nil"
       THEN [data |-> <<>>, err |-> d.err, cache |-> b.cache,
             endBlock |-> blockNumber, endOffset |-> chunkOffset]
       ELSE IF d.chunkType = ChunkTypeFull \/ d.chunkType = ChunkTypeLast
            THEN [data |-> result \o d.data, err |-> "nil", cache |-> b.cache,
                  endBlock |-> blockNumber, endOffset |-> d.end]
            ELSE readChunks(seg, file, b.cache, capacity,
                            U32(blockNumber + 1), 0, result \o d.data)

\* segment.Read(blockNumber, chunkOffset)
segmentRead(seg, file, cache, capacity, blockNumber, chunkOffset) ==
    IF seg.closed
    THEN [data |-> <<>>, err |-> "ErrClosed", cache |-> cache,
          endBlock |-> blockNumber, endOffset |-> chunkOffset]
    ELSE readChunks(seg, file, cache, capacity, blockNumber, chunkOffset, <<>>)

\* ------------------------------------------------------------------------
\* Segment reader: a cursor (blockNumber, chunkOffset) over one segment
\* ------------------------------------------------------------------------
\* The cursor after a record whose last chunk ends at (endBlock, endOffset):
\* a block tail shorter than a chunk header is padding and is skipped.
advanceCursor(endBlock, endOffset) ==
    IF blockSize - endOffset < chunkHeaderSize
    THEN [blockNumber |-> U32(endBlock + 1), chunkOffset |-> 0]
    ELSE [blockNumber |-> endBlock, chunkOffset |-> endOffset]

\* What segmentReader.Next returns when it yields nothing: the cursor stays
segmentReaderStay(err, cache, blockNumber, chunkOffset) ==
    [data |-> <<>>, position |-> NoPosition, err |-> err, cache |-> cache,
     blockNumber |-> blockNumber, chunkOffset |-> chunkOffset]

\* The end of segmentReader.Next, r being what segment.Read returned: the
\* record with the position it was read at, and the cursor moved behind it
segmentReaderYield(id, blockNumber, chunkOffset, r) ==
    IF r.err # "nil" THEN segmentReaderStay(r.err, r.cache, blockNumber, chunkOffset)
    ELSE [data |-> r.data,
          position |-> [SegmentId |-> id, BlockNumber |-> blockNumber,
                        ChunkOffset |-> chunkOffset,
                        ChunkSize |-> (r.endBlock * blockSize + r.endOffset)
                                      - (blockNumber * blockSize + chunkOffset)],
          err |-> "nil", cache |-> r.cache,
          blockNumber |-> advanceCursor(r.endBlock, r.endOffset).blockNumber,
          chunkOffset |-> advanceCursor(r.endBlock, r.endOffset).chunkOffset]

\* segmentReader.Next: [data, position, err, cache, blockNumber, chunkOffset]
segmentReaderNext(seg, file, cache, capacity, blockNumber, chunkOffset) ==
    IF seg.closed THEN segmentReaderStay("ErrClosed", cache, blockNumber, chunkOffset)
    ELSE IF blockNumber * blockSize + chunkOffset >= Size(seg)
         THEN segmentReaderStay("EOF", cache, blockNumber, chunkOffset)
         ELSE segmentReaderYield(seg.id, blockNumber, chunkOffset,
                  segmentRead(seg, file, cache, capacity, blockNumber, chunkOffset))

\* ------------------------------------------------------------------------
\* State
\* ------------------------------------------------------------------------
VARIABLES
    options,        \* Options of the WAL: SegmentSize, BlockCache, Sync, BytesPerSync
    files,          \* the directory: segment id -> bytes of the segment file
    synced,         \* segment id -> length of the prefix of the file that was fsynced
    segs,           \* segment objects of this WAL instance, by id
    activeSegment,  \* WAL.activeSegment (the id of the object)
    olderSegments,  \* keys of WAL.olderSegments
    olderNil,       \* WAL.olderSegments is the nil map (after Close or Delete)
    bytesWrite,     \* WAL.bytesWrite
    pendingWrites,  \* WAL.pendingWrites: the payloads staged for WriteAll, in order
    faults,         \* environment: how many more calls the file system may fail an fsync in
    blockCache,     \* WAL.blockCache
    reader,         \* the Reader handed out by NewReader*, with what it returned so far
    written,        \* history: payload and position of every record written, in order,
                    \* with the active segment and its file size when the call began
                    \* and the call that wrote it, Write or WriteAll
    lastOp,         \* history: the last call and what it returned
    reopens,        \* history: number of Open calls after the first
    mu,             \* WAL.mu, the sync.RWMutex
    pc,             \* thread -> where the thread is in the call it is making
    loc,            \* thread -> arguments and local variables of that call
    raced           \* history: a Reader.Next ran while a Write was between two steps

walVars == <<options, files, synced, segs, activeSegment, olderSegments, olderNil,
             bytesWrite, pendingWrites, faults, blockCache, reader, written, lastOp,
             reopens>>

threadVars == <<mu, pc, loc, raced>>

vars == <<walVars, threadVars>>

\* The part of the state that WAL.Write, OpenNewActiveSegment and Sync work on.
\* io holds what the file system answers to the fd.Sync calls that the call
\* makes, in order; every fd.Sync beyond the end of io succeeds.
walState == [files |-> files, synced |-> synced, segs |-> segs,
             activeSegment |-> activeSegment, olderSegments |-> olderSegments,
             bytesWrite |-> bytesWrite, io |-> <<>>]

SegmentSize == 2 * blockSize + 8

\* Options the WAL is opened with
OptionSet ==
    { [SegmentSize |-> SegmentSize, BlockCache |-> 0, Sync |-> FALSE, BytesPerSync |-> 0],
      [SegmentSize |-> SegmentSize, BlockCache |-> blockSize, Sync |-> TRUE, BytesPerSync |-> 0],
      [SegmentSize |-> SegmentSize, BlockCache |-> 2 * blockSize - 1, Sync |-> FALSE,
       BytesPerSync |-> blockSize + 4] }

\* Payload lengths of the Write calls: an empty payload; FULL chunks that leave a
\* block tail of exactly 7 bytes, of 3 bytes, of 0 bytes; a record of two chunks;
\* a record of three chunks; a payload too large for a segment.
PayloadLens ==
    { 0,
      blockSize - 2 * chunkHeaderSize,
      blockSize - chunkHeaderSize - 3,
      blockSize - chunkHeaderSize,
      blockSize - chunkHeaderSize + 3,
      2 * (blockSize - chunkHeaderSize) + 2,
      SegmentSize - chunkHeaderSize + 1 }

capacity == lruSize(options.BlockCache)

FileOf(id) == IF id \in DOMAIN files THEN files[id] ELSE <<>>

NoReader == [open |-> FALSE, segmentReaders |-> <<>>, currentReader |-> 0,
             yielded |-> <<>>, err |-> "nil", base |-> 0, max |-> 0, start |-> NoPosition]

\* What lastOp holds: the call, the error it returned, its argument (for a
\* Write the length of the payload, for a Read the segment id of the position)
\* and what the file system answered to its fd.Sync calls; for a WriteAll the
\* number of staged payloads and the positions its Write calls returned; for
\* ActiveSegmentID the id returned, for IsEmpty 1 for true and 0 for false
Op(op, err) ==
    [op |-> op, err |-> err, arg |-> 0, io |-> <<>>, positions |-> <<>>, ret |-> 0]

\* ------------------------------------------------------------------------
\* WAL operations on a walState st
\* ------------------------------------------------------------------------
\* What segment.Sync of segment id returns: nil on a closed segment, else
\* what fd.Sync returns
segmentSyncErr(st, id) ==
    IF st.segs[id].closed \/ st.io = <<>> THEN "nil" ELSE Head(st.io)

\* segment.Sync of segment id: fsync, unless the segment is closed.  An fsync
\* that fails leaves nothing more known to be on stable storage.
segmentSync(st, id) ==
    IF st.segs[id].closed THEN st
    ELSE IF segmentSyncErr(st, id) = "nil"
         THEN [st EXCEPT !.synced[id] = Len(st.files[id]), !.io = IF @ = <<>> THEN @ ELSE Tail(@)]
         ELSE [st EXCEPT !.io = Tail(@)]

\* os.OpenFile(O_CREATE|O_RDWR|O_APPEND) of segment id: the file is created
\* empty when it does not exist
createFile(st, id) ==
    IF id \in DOMAIN st.files THEN st
    ELSE [st EXCEPT !.files = (id :> <<>>) @@ @, !.synced = (id :> 0) @@ @]

\* isFull with >= for >: a segment that the record would fill exactly counts as full
isFullAtLimit(st, delta) ==
    Size(st.segs[st.activeSegment]) + delta + chunkHeaderSize >= options.SegmentSize

\* WAL.isFull
isFull(st, delta) ==
    Size(st.segs[st.activeSegment]) + delta + chunkHeaderSize > options.SegmentSize

\* The test that opens WAL.Write: the payload with its header exceeds a segment
valueTooLarge(data) == Len(data) + chunkHeaderSize > options.SegmentSize

\* Install a new segment activeSegment.id + 1 as the active one and move the
\* old one into olderSegments: [st, err].  Assigning into the nil map panics,
\* after the file of the new segment was created.
installNewActive(st) ==
    LET id == U32(st.activeSegment + 1)
        c == createFile(st, id)
    IN IF olderNil
       THEN [st |-> c, err |-> "panic"]
       ELSE [st |-> [c EXCEPT !.segs = (id :> openSegmentFile(id, Len(c.files[id]))) @@ @,
                              !.olderSegments = @ \cup {st.activeSegment},
                              !.activeSegment = id],
             err |-> "nil"]

\* A roll-over that seals the active segment whatever its fsync returned
rollOverUnchecked(st) ==
    installNewActive([segmentSync(st, st.activeSegment) EXCEPT !.bytesWrite = 0])

\* The roll-over of WAL.Write: sync the active segment, reset bytesWrite,
\* install a new active segment
rollOver(st) ==
    IF segmentSyncErr(st, st.activeSegment) # "nil"
    THEN [st |-> segmentSync(st, st.activeSegment), err |-> segmentSyncErr(st, st.activeSegment)]
    ELSE installNewActive([segmentSync(st, st.activeSegment) EXCEPT !.bytesWrite = 0])

\* needSync that looks at BytesPerSync only and not at options.Sync
needSyncBytesOnly(bytes) ==
    options.BytesPerSync > 0 /\ bytes >= options.BytesPerSync

\* Does WAL.Write sync after this write?
needSync(bytes) ==
    options.Sync \/ (options.BytesPerSync > 0 /\ bytes >= options.BytesPerSync)

\* The file of segment id in the directory of st; a file that was removed reads empty
fileIn(st, id) == IF id \in DOMAIN st.files THEN st.files[id] ELSE <<>>

\* The end of WAL.Write, st being the state with what segment.Write wrote:
\* bytesWrite grows by the chunk size, and the active segment is synced and
\* bytesWrite reset when the options ask for it
writeSync(st, position) ==
    IF needSync(U32(st.bytesWrite + position.ChunkSize))
    THEN [segmentSync(st, st.activeSegment) EXCEPT
             !.bytesWrite = IF segmentSyncErr(st, st.activeSegment) = "nil"
                            THEN 0 ELSE U32(@ + position.ChunkSize)]
    ELSE [st EXCEPT !.bytesWrite = U32(@ + position.ChunkSize)]

\* What the sync at the end of WAL.Write returns
writeSyncErr(st, position) ==
    IF needSync(U32(st.bytesWrite + position.ChunkSize))
    THEN segmentSyncErr(st, st.activeSegment) ELSE "nil"

\* WAL.Write after activeSegment.Write returned w
writeDone(st, w) ==
    IF w.err # "nil"
    THEN [st |-> st, position |-> NoPosition, err |-> w.err]
    ELSE [st |-> writeSync(st, w.position),
          position |-> IF writeSyncErr(st, w.position) = "nil" THEN w.position ELSE NoPosition,
          err |-> writeSyncErr(st, w.position)]

\* The segment object and the file of the active segment take what segment.Write left
writeStored(st, w) ==
    writeDone([st EXCEPT !.segs[st.activeSegment] = w.seg,
                         !.files = IF st.activeSegment \in DOMAIN @
                                   THEN [@ EXCEPT ![st.activeSegment] = w.file] ELSE @],
              w)

\* WAL.Write after the roll-over test, r being [st, err] of the roll-over
writeActive(r, data) ==
    IF r.err # "nil"
    THEN [st |-> r.st, position |-> NoPosition, err |-> r.err]
    ELSE writeStored(r.st, segmentWrite(r.st.segs[r.st.activeSegment],
                                        fileIn(r.st, r.st.activeSegment), data))

\* WAL.Write with the roll-over made before the size of the payload is tested
walWriteRollFirst(st, data) ==
    IF valueTooLarge(data)
    THEN [st |-> (IF isFull(st, Len(data)) THEN rollOver(st) ELSE [st |-> st, err |-> "nil"]).st,
          position |-> NoPosition, err |-> "ErrValueTooLarge"]
    ELSE writeActive(IF isFull(st, Len(data)) THEN rollOver(st) ELSE [st |-> st, err |-> "nil"],
                     data)

\* WAL.Write(data): [st, position, err]
walWrite(st, data) ==
    IF valueTooLarge(data)
    THEN [st |-> st, position |-> NoPosition, err |-> "ErrValueTooLarge"]
    ELSE writeActive(IF isFull(st, Len(data)) THEN rollOver(st) ELSE [st |-> st, err |-> "nil"],
                     data)

\* WAL.OpenNewActiveSegment: [st, err]
walOpenNewActiveSegment(st) ==
    IF segmentSyncErr(st, st.activeSegment) # "nil"
    THEN [st |-> segmentSync(st, st.activeSegment), err |-> segmentSyncErr(st, st.activeSegment)]
    ELSE installNewActive(segmentSync(st, st.activeSegment))

\* ------------------------------------------------------------------------
\* Batched writes: PendingWrites stages payloads, WriteAll writes them
\* ------------------------------------------------------------------------
\* The bound on the on-disk size of a record of len bytes: the payload, one
\* header for every block's worth of payload, and one block
framingBound(len) ==
    len + ((len + blockSize - chunkHeaderSize - 1) \div (blockSize - chunkHeaderSize))
              * chunkHeaderSize
        + blockSize

\* The cumulative encoded size of the staged payloads
RECURSIVE pendingSize(_)
pendingSize(pending) ==
    IF pending = <<>> THEN 0
    ELSE framingBound(Len(Head(pending))) + pendingSize(Tail(pending))

\* PendingWrites that stages the payload whatever the cumulative size
walPendingWritesUnchecked(pending, data) ==
    [pending |-> Append(pending, data), err |-> "nil"]

\* WAL.PendingWrites(data): [pending, err].  A payload that is refused
\* empties the staging area: the WriteAll that follows a refused
\* PendingWrites returns no position and no error (BenchmarkWAL_WriteBatch).
walPendingWrites(pending, data) ==
    IF pendingSize(pending) + framingBound(Len(data)) > options.SegmentSize
    THEN [pending |-> <<>>, err |-> "ErrPendingSizeTooLarge"]
    ELSE [pending |-> Append(pending, data), err |-> "nil"]

\* The first pass of WriteAll works on the counters of the active segment:
\* c = [id, blockNumber, blockSize].  The size of the segment they stand for:
simulatedSize(c) == c.blockNumber * blockSize + c.blockSize

\* The counters a simulated Write of len bytes starts from: those of a new
\* segment when the record makes the active segment roll over
simulateRollOver(c, len) ==
    IF simulatedSize(c) + len + chunkHeaderSize > options.SegmentSize
    THEN [id |-> c.id + 1, blockNumber |-> 0, blockSize |-> 0]
    ELSE c

\* simulatePadding that leaves a block tail of 7 bytes or less in place
simulateNoPadding(c) == c

\* The counters after the padding step
simulatePadding(c) ==
    IF c.blockSize + chunkHeaderSize >= blockSize
    THEN [c EXCEPT !.blockNumber = @ + 1, !.blockSize = 0]
    ELSE c

\* The counters after the chunks of a record of left bytes are appended
RECURSIVE simulateChunks(_, _)
simulateChunks(c, left) ==
    IF c.blockSize + left + chunkHeaderSize < blockSize
    THEN [c EXCEPT !.blockSize = @ + left + chunkHeaderSize]
    ELSE IF c.blockSize + left + chunkHeaderSize = blockSize
         THEN [c EXCEPT !.blockNumber = @ + 1, !.blockSize = 0]
         ELSE simulateChunks([c EXCEPT !.blockNumber = @ + 1, !.blockSize = 0],
                             left - (blockSize - c.blockSize - chunkHeaderSize))

\* The position of a record that starts at the counters c and ends at e
simulatedPosition(c, e) ==
    [SegmentId |-> c.id, BlockNumber |-> c.blockNumber, ChunkOffset |-> c.blockSize,
     ChunkSize |-> simulatedSize(e) - simulatedSize(c)]

\* The first pass of WriteAll: the positions of the staged records, from the
\* counters c on
RECURSIVE simulate(_, _)
RECURSIVE simulateFrom(_, _)
simulate(c, pending) ==
    IF pending = <<>> THEN <<>>
    ELSE simulateFrom(simulatePadding(simulateRollOver(c, Len(Head(pending)))), pending)

simulateFrom(c, pending) ==
    <<simulatedPosition(c, simulateChunks(c, Len(Head(pending))))>>
        \o simulate(simulateChunks(c, Len(Head(pending))), Tail(pending))

\* The second pass of WriteAll: Write of every staged record, in order, until
\* one fails: [st, positions, err]
RECURSIVE writeEach(_, _, _)
RECURSIVE writeEachAfter(_, _, _)
writeEach(st, pending, positions) ==
    IF pending = <<>> THEN [st |-> st, positions |-> positions, err |-> "nil"]
    ELSE writeEachAfter(walWrite(st, Head(pending)), Tail(pending), positions)

writeEachAfter(w, pending, positions) ==
    IF w.err # "nil" THEN [st |-> w.st, positions |-> positions, err |-> w.err]
    ELSE writeEach(w.st, pending, Append(positions, w.position))

\* The counters of the active segment of st
activeCounters(st) ==
    [id |-> st.activeSegment,
     blockNumber |-> st.segs[st.activeSegment].currentBlockNumber,
     blockSize |-> st.segs[st.activeSegment].currentBlockSize]

\* What WriteAll returns once the second pass returned w: the positions of the
\* first pass and an empty staging area, or the error and the staging area
\* as it was: [st, pending, positions, written, err]
writeAllDone(st, pending, w) ==
    [st |-> w.st,
     pending |-> IF w.err = "nil" THEN <<>> ELSE pending,
     positions |-> IF w.err = "nil" THEN simulate(activeCounters(st), pending) ELSE <<>>,
     written |-> w.positions,
     err |-> w.err]

\* WAL.WriteAll on the staged payloads
walWriteAll(st, pending) ==
    IF \E i \in 1..Len(pending) : Len(pending[i]) > options.SegmentSize - chunkHeaderSize
    THEN [st |-> st, pending |-> pending, positions |-> <<>>, written |-> <<>>,
          err |-> "ErrValueTooLarge"]
    ELSE writeAllDone(st, pending, writeEach(st, pending, <<>>))

\* findSegment that looks the id up in the map of older segments only
findSegmentOlderOnly(segmentId) ==
    IF ~olderNil /\ segmentId \in olderSegments THEN segmentId
    ELSE 0

\* The segment WAL.Read picks for a position: its id, or 0 for the nil pointer
findSegment(segmentId) ==
    IF segmentId = activeSegment THEN activeSegment
    ELSE IF ~olderNil /\ segmentId \in olderSegments THEN segmentId
    ELSE 0

\* WAL.Read(pos): what segment.Read returns, [data, err, cache, endBlock, endOffset]
walRead(pos) ==
    IF findSegment(pos.SegmentId) = 0
    THEN [data |-> <<>>, err |-> "ErrSegmentNotFound", cache |-> blockCache,
          endBlock |-> pos.BlockNumber, endOffset |-> pos.ChunkOffset]
    ELSE segmentRead(segs[findSegment(pos.SegmentId)], FileOf(findSegment(pos.SegmentId)),
                     blockCache, capacity, pos.BlockNumber, pos.ChunkOffset)

\* WAL.IsEmpty: no older segment (the nil map has length 0) and an active
\* segment of size 0
walIsEmpty ==
    (olderNil \/ olderSegments = {}) /\ Size(segs[activeSegment]) = 0

\* ------------------------------------------------------------------------
\* Reader: segment readers sorted by segment id, and the index of the current one
\* ------------------------------------------------------------------------
RECURSIVE sortIds(_)
sortIds(S) ==
    IF S = {} THEN <<>>
    ELSE LET m == CHOOSE x \in S : \A y \in S : x <= y
         IN <<m>> \o sortIds(S \ {m})

\* WAL.NewReaderWithMax(segId): readers of the older segments and of the active
\* segment whose id is <= segId (all of them when segId = 0), sorted by id
newReaderWithMax(segId) ==
    LET older == IF olderNil THEN {} ELSE olderSegments
        ids == {id \in older \cup {activeSegment} : segId = 0 \/ id <= segId}
    IN [segmentReaders |-> [i \in 1..Cardinality(ids) |->
                               [id |-> sortIds(ids)[i], blockNumber |-> 0, chunkOffset |-> 0]],
        currentReader |-> 0]

\* Reader.Next on the cursor rd = [segmentReaders, currentReader]:
\* [rd, data, position, err, cache]
\* readerNextOn: the rest of one turn, r being what the current segment
\* reader returned.
RECURSIVE readerNext(_, _)
RECURSIVE readerNextOn(_, _)
readerNext(rd, cache) ==
    IF rd.currentReader >= Len(rd.segmentReaders)
    THEN [rd |-> rd, data |-> <<>>, position |-> NoPosition, err |-> "EOF", cache |-> cache]
    ELSE LET sr == rd.segmentReaders[rd.currentReader + 1]
         IN readerNextOn(rd, segmentReaderNext(segs[sr.id], FileOf(sr.id), cache, capacity,
                                               sr.blockNumber, sr.chunkOffset))

readerNextOn(rd, r) ==
    IF r.err = "EOF"
    THEN readerNext([rd EXCEPT !.currentReader = @ + 1], r.cache)
    ELSE [rd |-> [rd EXCEPT !.segmentReaders[rd.currentReader + 1].blockNumber = r.blockNumber,
                            !.segmentReaders[rd.currentReader + 1].chunkOffset = r.chunkOffset],
          data |-> r.data, position |-> r.position, err |-> r.err, cache |-> r.cache]

\* The loop of WAL.NewReaderWithStart: segments before startPos.SegmentId are
\* skipped, then records are read until the cursor passes startPos.
\* Reader.CurrentSegmentId indexes segmentReaders[currentReader] unchecked.
\* seekStartOn: the rest of one turn, n being what Reader.Next returned.
RECURSIVE seekStart(_, _, _)
RECURSIVE seekStartOn(_, _)
seekStart(rd, cache, startPos) ==
    IF rd.currentReader >= Len(rd.segmentReaders)
    THEN [rd |-> rd, cache |-> cache, err |-> "panic"]
    ELSE LET sr == rd.segmentReaders[rd.currentReader + 1]
         IN IF sr.id < startPos.SegmentId
            THEN seekStart([rd EXCEPT !.currentReader = @ + 1], cache, startPos)
            ELSE IF sr.blockNumber >= startPos.BlockNumber
                    /\ sr.chunkOffset >= startPos.ChunkOffset
                 THEN [rd |-> rd, cache |-> cache, err |-> "nil"]
                 ELSE seekStartOn(readerNext(rd, cache), startPos)

seekStartOn(n, startPos) ==
    IF n.err = "EOF" THEN [rd |-> n.rd, cache |-> n.cache, err |-> "nil"]
    ELSE IF n.err # "nil" THEN [rd |-> n.rd, cache |-> n.cache, err |-> n.err]
    ELSE seekStart(n.rd, n.cache, startPos)

\* ------------------------------------------------------------------------
\* Close, Delete and Open
\* ------------------------------------------------------------------------
\* segment.Close on every segment object in ids
closeSegments(objs, ids) ==
    [id \in DOMAIN objs |-> IF id \in ids THEN [objs[id] EXCEPT !.closed = TRUE] ELSE objs[id]]

\* The directory without the files of ids
removeFiles(dir, ids) == [id \in DOMAIN dir \ ids |-> dir[id]]

\* A Delete that removes the file of the active segment only
removedActiveOnly == {activeSegment}

\* The segments WAL.Delete calls Remove on: those of the map of older
\* segments, then the active one
removedSegments == (IF olderNil THEN {} ELSE olderSegments) \cup {activeSegment}

\* The WAL that Open builds from the directory dir: the greatest id is the
\* active segment, the others are the older segments; an empty directory gets
\* segment initialSegmentFileID.
openDir(dir) == IF DOMAIN dir = {} THEN (initialSegmentFileID :> <<>>) ELSE dir

openActive(dir) == CHOOSE id \in DOMAIN openDir(dir) : \A o \in DOMAIN openDir(dir) : o <= id

openSegments(dir) ==
    [id \in DOMAIN openDir(dir) |-> openSegmentFile(id, Len(openDir(dir)[id]))]

\* ------------------------------------------------------------------------
\* Threads and the lock (used by the concurrent specification)
\* ------------------------------------------------------------------------
Threads == {"t1", "t2"}

\* Arguments and local variables of the call a thread is making: the payload
\* and the position of a Write or the position handed to a read, the bytes
\* left to write, whether the record is one FULL chunk, the file size after
\* the padding step, and the active segment and its size when Write began
NoLocals == [data |-> <<>>, position |-> NoPosition, leftSize |-> 0, full |-> FALSE,
             fileSize |-> 0, activeBefore |-> 0, sizeBefore |-> 0]

\* sync.RWMutex: writer is the thread that called Lock and either waits for
\* the readers to leave or holds the lock; readers counts the RLocks held
MutexFree == [writer |-> "none", readers |-> [t \in Threads |-> 0]]

\* A Lock that does not wait for another writer
canLockAlways(m) == TRUE

\* Lock goes ahead when no other writer waits for or holds the lock
canLock(m) == m.writer = "none"

\* The Lock of thread t returns once every reader has left
lockGranted(m, t) == m.writer = t /\ \A u \in Threads : m.readers[u] = 0

\* RLock returns unless a writer waits for or holds the lock
canRLock(m) == m.writer = "none"

\* ------------------------------------------------------------------------
\* Initial state: a WAL opened on an empty directory
\* ------------------------------------------------------------------------
InitWith(opts) ==
    /\ options \in opts
    /\ files = (initialSegmentFileID :> <<>>)
    /\ synced = (initialSegmentFileID :> 0)
    /\ segs = (initialSegmentFileID :> openSegmentFile(initialSegmentFileID, 0))
    /\ activeSegment = initialSegmentFileID
    /\ olderSegments = {}
    /\ olderNil = FALSE
    /\ bytesWrite = 0
    /\ pendingWrites = <<>>
    /\ blockCache = <<>>
    /\ reader = NoReader
    /\ written = <<>>
    /\ lastOp = Op("Open", "nil")
    /\ reopens = 0
    /\ mu = MutexFree
    /\ pc = [t \in Threads |-> "idle"]
    /\ loc = [t \in Threads |-> NoLocals]
    /\ raced = FALSE

Init == InitWith(OptionSet) /\ faults = 0

\* What the file system may answer to the fd.Sync calls of one call: every
\* fsync succeeds, the first one fails, or the first succeeds and the second
\* fails
FsyncResults ==
    IF faults = 0 THEN {<<>>} ELSE {<<>>, <<"EIO">>, <<"nil", "EIO">>}

\* The walState a call starts from when the file system answers io
walStateWith(io) == [walState EXCEPT !.io = io]

\* A call that was given a failing fsync uses up one of the faults
spend(io) == faults' = IF io = <<>> THEN faults ELSE faults - 1

\* The variables WAL.Write, OpenNewActiveSegment and Sync work on take the
\* values of the walState st
setWalState(st) ==
    /\ files' = st.files
    /\ synced' = st.synced
    /\ segs' = st.segs
    /\ activeSegment' = st.activeSegment
    /\ olderSegments' = st.olderSegments
    /\ bytesWrite' = st.bytesWrite

\* The model stops at MaxSegments segment files
withinSegments(st) == \A id \in DOMAIN st.files : id <= MaxSegments

\* ------------------------------------------------------------------------
\* Actions of the sequential specification: one call, start to return
\* ------------------------------------------------------------------------
\* The return of WAL.Write(data), r being [st, position, err]
WriteReturns(data, r, io) ==
    /\ withinSegments(r.st)
    /\ setWalState(r.st)
    /\ written' = IF r.err = "nil"
                  THEN Append(written, [data |-> data, position |-> r.position,
                                        activeBefore |-> activeSegment,
                                        sizeBefore |-> Size(segs[activeSegment]),
                                        by |-> "Write"])
                  ELSE written
    /\ lastOp' = [Op("Write", r.err) EXCEPT !.arg = Len(data), !.io = io]

Write(n) ==
    /\ Len(written) < MaxWrites
    /\ ~reader.open
    /\ \E io \in FsyncResults :
          /\ WriteReturns(Payload(Len(written) + 1, n),
                          walWrite(walStateWith(io), Payload(Len(written) + 1, n)), io)
          /\ spend(io)
    /\ UNCHANGED <<options, pendingWrites, olderNil, blockCache, reader, reopens, threadVars>>

\* Positions handed to Read: those Write returned, and the start of every
\* segment id up to one beyond the last the model creates
ReadPositions ==
    {written[i].position : i \in 1..Len(written)}
    \cup {[SegmentId |-> id, BlockNumber |-> 0, ChunkOffset |-> 0, ChunkSize |-> 0] :
            id \in 0..(MaxSegments + 1)}

\* The return of WAL.Read(pos), r being [data, err, cache, ...]
ReadReturns(pos, r) ==
    /\ blockCache' = r.cache
    /\ lastOp' = [Op("Read", r.err) EXCEPT !.arg = pos.SegmentId]

Read(pos) ==
    /\ ReadReturns(pos, walRead(pos))
    /\ UNCHANGED <<options, pendingWrites, faults, files, synced, segs, activeSegment, olderSegments, olderNil,
                   bytesWrite, reader, written, reopens, threadVars>>

\* The return of WAL.OpenNewActiveSegment, r being [st, err]
OpenNewActiveSegmentReturns(r, io) ==
    /\ withinSegments(r.st)
    /\ setWalState(r.st)
    /\ lastOp' = [Op("OpenNewActiveSegment", r.err) EXCEPT !.io = io]

OpenNewActiveSegment ==
    /\ ~reader.open
    /\ \E io \in FsyncResults :
          /\ OpenNewActiveSegmentReturns(walOpenNewActiveSegment(walStateWith(io)), io)
          /\ spend(io)
    /\ UNCHANGED <<options, pendingWrites, olderNil, blockCache, reader, written, reopens, threadVars>>

Sync ==
    /\ \E io \in FsyncResults :
          /\ setWalState(segmentSync(walStateWith(io), activeSegment))
          /\ lastOp' = [Op("Sync", segmentSyncErr(walStateWith(io), activeSegment))
                           EXCEPT !.io = io]
          /\ spend(io)
    /\ UNCHANGED <<options, pendingWrites, olderNil, blockCache, reader, written, reopens, threadVars>>

\* WAL.Close: purge the cache, close the older segments, drop the map, close
\* the active segment
Close ==
    /\ blockCache' = <<>>
    /\ segs' = closeSegments(segs, (IF olderNil THEN {} ELSE olderSegments) \cup {activeSegment})
    /\ olderSegments' = {}
    /\ olderNil' = TRUE
    /\ lastOp' = Op("Close", "nil")
    /\ UNCHANGED <<options, pendingWrites, faults, files, synced, activeSegment, bytesWrite, reader, written,
                   reopens, threadVars>>

\* WAL.Delete: purge the cache, remove the older segments, drop the map, remove
\* the active segment; os.Remove of a file that is gone is an error
Delete ==
    /\ blockCache' = <<>>
    /\ segs' = closeSegments(segs, removedSegments)
    /\ files' = removeFiles(files, removedSegments)
    /\ synced' = removeFiles(synced, removedSegments)
    /\ lastOp' = Op("Delete", IF activeSegment \in DOMAIN files THEN "nil" ELSE "ErrNotExist")
    /\ olderSegments' = {}
    /\ olderNil' = TRUE
    /\ UNCHANGED <<options, pendingWrites, faults, activeSegment, bytesWrite, reader, written,
                   reopens, threadVars>>

\* Open with the same options, once the previous WAL instance is closed
Open ==
    /\ segs[activeSegment].closed
    /\ reopens < MaxReopen
    /\ files' = openDir(files)
    /\ synced' = IF DOMAIN files = {} THEN (initialSegmentFileID :> 0) ELSE synced
    /\ segs' = openSegments(files)
    /\ activeSegment' = openActive(files)
    /\ olderSegments' = DOMAIN openDir(files) \ {openActive(files)}
    /\ olderNil' = FALSE
    /\ bytesWrite' = 0
    /\ blockCache' = <<>>
    /\ reader' = NoReader
    /\ pendingWrites' = <<>>
    /\ reopens' = reopens + 1
    /\ lastOp' = Op("Open", "nil")
    /\ UNCHANGED <<options, faults, written, threadVars>>

\* An IsEmpty that resets the count of bytes written since the last sync
IsEmptyResets ==
    /\ lastOp' = [Op("IsEmpty", "nil") EXCEPT !.ret = IF walIsEmpty THEN 1 ELSE 0]
    /\ bytesWrite' = 0
    /\ UNCHANGED <<options, pendingWrites, faults, files, synced, segs, activeSegment,
                   olderSegments, olderNil, blockCache, reader, written, reopens, threadVars>>

\* WAL.IsEmpty
IsEmpty ==
    /\ lastOp' = [Op("IsEmpty", "nil") EXCEPT !.ret = IF walIsEmpty THEN 1 ELSE 0]
    /\ UNCHANGED <<options, pendingWrites, faults, files, synced, segs, activeSegment,
                   olderSegments, olderNil, bytesWrite, blockCache, reader, written,
                   reopens, threadVars>>

\* WAL.ActiveSegmentID
ActiveSegmentID ==
    /\ lastOp' = [Op("ActiveSegmentID", "nil") EXCEPT !.ret = segs[activeSegment].id]
    /\ UNCHANGED <<options, pendingWrites, faults, files, synced, segs, activeSegment,
                   olderSegments, olderNil, bytesWrite, blockCache, reader, written,
                   reopens, threadVars>>

\* A reader with the history fields reset
freshReader(rd, segId) ==
    [open |-> TRUE, segmentReaders |-> rd.segmentReaders, currentReader |-> rd.currentReader,
     yielded |-> <<>>, err |-> "nil", base |-> Len(written), max |-> segId,
     start |-> NoPosition]

NewReader ==
    /\ reader' = freshReader(newReaderWithMax(0), 0)
    /\ lastOp' = Op("NewReader", "nil")
    /\ UNCHANGED <<options, pendingWrites, faults, files, synced, segs, activeSegment, olderSegments, olderNil,
                   bytesWrite, blockCache, written, reopens, threadVars>>

NewReaderWithMax(segId) ==
    /\ reader' = freshReader(newReaderWithMax(segId), segId)
    /\ lastOp' = Op("NewReaderWithMax", "nil")
    /\ UNCHANGED <<options, pendingWrites, faults, files, synced, segs, activeSegment, olderSegments, olderNil,
                   bytesWrite, blockCache, written, reopens, threadVars>>

\* Reader.Next on the reader handed out last
\* The return of Reader.Next, r being [rd, data, position, err, cache]
NextReturns(r) ==
    /\ reader' = [reader EXCEPT
                     !.segmentReaders = r.rd.segmentReaders,
                     !.currentReader = r.rd.currentReader,
                     !.err = r.err,
                     !.yielded = IF r.err = "nil"
                                 THEN Append(@, [data |-> r.data, position |-> r.position])
                                 ELSE @]
    /\ blockCache' = r.cache
    /\ lastOp' = Op("Next", r.err)

Next_ ==
    /\ reader.open
    /\ reader.err = "nil"
    /\ NextReturns(readerNext([segmentReaders |-> reader.segmentReaders,
                               currentReader |-> reader.currentReader], blockCache))
    /\ UNCHANGED <<options, pendingWrites, faults, files, synced, segs, activeSegment, olderSegments, olderNil,
                   bytesWrite, written, reopens, threadVars>>

\* The client drops the reader it holds.  The sequential specification follows
\* a reader from NewReader* until it is dropped, and issues no Write and no
\* OpenNewActiveSegment in between (the concurrent specification does).
DropReader ==
    /\ reader.open
    /\ reader' = NoReader
    /\ lastOp' = Op("DropReader", "nil")
    /\ UNCHANGED <<options, pendingWrites, faults, files, synced, segs, activeSegment, olderSegments, olderNil,
                   bytesWrite, blockCache, written, reopens, threadVars>>

\* The calls made on an open WAL
Next ==
    \/ \E n \in PayloadLens : Write(n)
    \/ \E pos \in ReadPositions : Read(pos)
    \/ OpenNewActiveSegment
    \/ NewReader
    \/ Next_
    \/ DropReader

Spec == Init /\ [][Next]_vars

\* The same calls, with Close once the client has dropped its reader, and a
\* later Open of the directory with the same options
ReopenNext ==
    \/ Next
    \/ (~reader.open /\ Close)
    \/ Open

ReopenSpec == Init /\ [][ReopenNext]_vars

\* ------------------------------------------------------------------------
\* Readers that start at a position
\* ------------------------------------------------------------------------
\* Positions handed to NewReaderWithStart: those Write returned, and the
\* places (segment id, block, offset) of a grid that reaches from segment id 0
\* to one beyond the last segment the model creates
StartSegmentIds == 0..(MaxSegments + 1)

StartGrid ==
    {[SegmentId |-> id, BlockNumber |-> b, ChunkOffset |-> o, ChunkSize |-> 0] :
        id \in StartSegmentIds, b \in 0..2, o \in {0, blockSize - chunkHeaderSize}}

SeqStartPositions == {written[i].position : i \in 1..Len(written)} \cup StartGrid

\* The return of NewReaderWithStart(startPos), r being [rd, cache, err] of its loop
NewReaderWithStartReturns(r, startPos) ==
    /\ reader' = IF r.err = "nil" THEN [freshReader(r.rd, 0) EXCEPT !.start = startPos]
                  ELSE NoReader
    /\ blockCache' = r.cache
    /\ lastOp' = [Op("NewReaderWithStart", r.err) EXCEPT !.positions = <<startPos>>]

\* WAL.NewReaderWithStart(startPos), start to return
NewReaderWithStart(startPos) ==
    /\ ~reader.open
    /\ NewReaderWithStartReturns(seekStart(newReaderWithMax(0), blockCache, startPos), startPos)
    /\ UNCHANGED <<options, pendingWrites, faults, files, synced, segs, activeSegment,
                   olderSegments, olderNil, bytesWrite, written, reopens, threadVars>>

StartInit == InitWith(OptionSet) /\ faults = 0

StartNext ==
    \/ \E n \in PayloadLens : Write(n)
    \/ OpenNewActiveSegment
    \/ \E startPos \in SeqStartPositions : NewReaderWithStart(startPos)
    \/ Next_
    \/ DropReader

StartSpec == StartInit /\ [][StartNext]_vars

\* ------------------------------------------------------------------------
\* Batched writes
\* ------------------------------------------------------------------------
\* Payload lengths handed to PendingWrites: as for Write, without the payload
\* that is too large for a segment
BatchPayloadLens ==
    { 0,
      blockSize - 2 * chunkHeaderSize,
      blockSize - chunkHeaderSize - 3,
      blockSize - chunkHeaderSize,
      2 * (blockSize - chunkHeaderSize) + 2 }

\* The return of WAL.PendingWrites, r being [pending, err]
PendingWritesReturns(n, r) ==
    /\ pendingWrites' = r.pending
    /\ lastOp' = [Op("PendingWrites", r.err) EXCEPT !.arg = n]

PendingWrites(n) ==
    /\ ~reader.open
    /\ Len(pendingWrites) < MaxBatch
    /\ Len(written) + Len(pendingWrites) < MaxRecords
    /\ PendingWritesReturns(n, walPendingWrites(pendingWrites,
                                  Payload(Len(written) + Len(pendingWrites) + 1, n)))
    /\ UNCHANGED <<options, faults, files, synced, segs, activeSegment, olderSegments,
                   olderNil, bytesWrite, blockCache, reader, written, reopens, threadVars>>

\* The records a successful WriteAll adds to the history: the staged payloads
\* with the positions WriteAll returned
batchRecords(r) ==
    [i \in 1..Len(r.positions) |->
        [data |-> pendingWrites[i], position |-> r.positions[i],
         activeBefore |-> activeSegment, sizeBefore |-> Size(segs[activeSegment]),
         by |-> "WriteAll"]]

\* The return of WAL.WriteAll, r being [st, pending, positions, written, err]
WriteAllReturns(r, io) ==
    /\ withinSegments(r.st)
    /\ setWalState(r.st)
    /\ pendingWrites' = r.pending
    /\ written' = IF r.err = "nil" THEN written \o batchRecords(r) ELSE written
    /\ lastOp' = [Op("WriteAll", r.err) EXCEPT !.arg = Len(pendingWrites), !.io = io,
                                               !.positions = r.written]

WriteAll ==
    /\ ~reader.open
    /\ \E io \in FsyncResults :
          /\ WriteAllReturns(walWriteAll(walStateWith(io), pendingWrites), io)
          /\ spend(io)
    /\ UNCHANGED <<options, olderNil, blockCache, reader, reopens, threadVars>>

\* The WAL of the batch tests: a segment of three blocks and a half
BatchOptions ==
    { [SegmentSize |-> 3 * blockSize + 8, BlockCache |-> 0, Sync |-> FALSE,
       BytesPerSync |-> 0],
      [SegmentSize |-> 3 * blockSize + 8, BlockCache |-> blockSize, Sync |-> TRUE,
       BytesPerSync |-> 0] }

BatchInit == InitWith(BatchOptions) /\ faults = 0

BatchNext ==
    \/ \E n \in PayloadLens : Write(n)
    \/ \E n \in BatchPayloadLens : PendingWrites(n)
    \/ WriteAll
    \/ NewReader
    \/ Next_
    \/ DropReader

BatchSpec == BatchInit /\ [][BatchNext]_vars

\* ------------------------------------------------------------------------
\* The calls that write, sync, close and reopen, on a file system that may
\* fail an fsync
\* ------------------------------------------------------------------------
SyncInit == InitWith(OptionSet) /\ faults = MaxFaults

SyncNext ==
    \/ \E n \in PayloadLens : Write(n)
    \/ OpenNewActiveSegment
    \/ Sync
    \/ Close
    \/ Open

SyncSpec == SyncInit /\ [][SyncNext]_vars

\* The calls that seal a segment: Write, WriteAll and OpenNewActiveSegment, on
\* a file system that may fail an fsync
SealNext ==
    \/ \E n \in PayloadLens : Write(n)
    \/ \E n \in BatchPayloadLens : PendingWrites(n)
    \/ WriteAll
    \/ OpenNewActiveSegment

SealSpec == SyncInit /\ [][SealNext]_vars

\* ------------------------------------------------------------------------
\* Readers bounded by a segment id
\* ------------------------------------------------------------------------
\* Segment ids handed to NewReaderWithMax: 0 for every segment, and the ids up
\* to one beyond the last segment the model creates
MaxSegIds == 0..(MaxSegments + 1)

MaxNext ==
    \/ \E n \in PayloadLens : Write(n)
    \/ OpenNewActiveSegment
    \/ \E segId \in MaxSegIds : (~reader.open /\ NewReaderWithMax(segId))
    \/ Next_
    \/ DropReader

MaxSpec == Init /\ [][MaxNext]_vars

\* ------------------------------------------------------------------------
\* The life of a WAL: writes, roll-overs, IsEmpty, Close, and Open again
\* ------------------------------------------------------------------------
LifeNext ==
    \/ \E n \in PayloadLens : Write(n)
    \/ OpenNewActiveSegment
    \/ IsEmpty
    \/ Close
    \/ Open

LifeSpec == Init /\ [][LifeNext]_vars

\* Writes and roll-overs, Delete, and Open of the directory again
DeleteNext ==
    \/ \E n \in PayloadLens : Write(n)
    \/ OpenNewActiveSegment
    \/ IsEmpty
    \/ Delete
    \/ Open

DeleteSpec == Init /\ [][DeleteNext]_vars

\* ------------------------------------------------------------------------
\* The calls that read next to the calls that write
\* ------------------------------------------------------------------------
\* Positions handed to NewReaderWithStart next to the other calls: those the
\* writes returned, and the start of a segment beyond the last
FrameStartPositions ==
    {written[i].position : i \in 1..Len(written)}
    \cup {[SegmentId |-> MaxSegments + 1, BlockNumber |-> 0, ChunkOffset |-> 0, ChunkSize |-> 0]}

\* The client reads while it has nothing staged for WriteAll
nothingStaged == pendingWrites = <<>>

\* The records written and staged stay within MaxWrites
roomForRecord == Len(written) + Len(pendingWrites) < MaxWrites

FrameNext ==
    \/ \E n \in PayloadLens : (roomForRecord /\ Write(n))
    \/ (roomForRecord /\ PendingWrites(blockSize - chunkHeaderSize))
    \/ WriteAll
    \/ OpenNewActiveSegment
    \/ \E pos \in ReadPositions : (nothingStaged /\ Read(pos))
    \/ (nothingStaged /\ ~reader.open /\ NewReader)
    \/ \E segId \in MaxSegIds : (nothingStaged /\ ~reader.open /\ NewReaderWithMax(segId))
    \/ \E startPos \in FrameStartPositions : (nothingStaged /\ NewReaderWithStart(startPos))
    \/ (nothingStaged /\ ActiveSegmentID)
    \/ (nothingStaged /\ IsEmpty)
    \/ Next_
    \/ DropReader

FrameInit ==
    /\ InitWith({[SegmentSize |-> 3 * blockSize + 8, BlockCache |-> blockSize,
                  Sync |-> FALSE, BytesPerSync |-> 0]})
    /\ faults = 0

FrameSpec == FrameInit /\ [][FrameNext]_vars

\* ------------------------------------------------------------------------
\* One segment, used directly: Write, Sync, Close and Remove on a segment
\* that openSegmentFile opened on a file of any length
\* ------------------------------------------------------------------------
\* The greatest length of the file the segment is opened on
MaxFileLen == 2 * blockSize

\* What os.Remove of the file of segment id returns
removeErr(dir, id) == IF id \in DOMAIN dir THEN "nil" ELSE "ErrNotExist"

SegmentInit ==
    /\ options = [SegmentSize |-> SegmentSize, BlockCache |-> 0, Sync |-> FALSE,
                  BytesPerSync |-> 0]
    /\ \E len \in 0..MaxFileLen :
          /\ files = (initialSegmentFileID :> Zeros(len))
          /\ synced = (initialSegmentFileID :> len)
          /\ segs = (initialSegmentFileID :> openSegmentFile(initialSegmentFileID, len))
    /\ activeSegment = initialSegmentFileID
    /\ olderSegments = {}
    /\ olderNil = FALSE
    /\ bytesWrite = 0
    /\ pendingWrites = <<>>
    /\ faults = 0
    /\ blockCache = <<>>
    /\ reader = NoReader
    /\ written = <<>>
    /\ lastOp = Op("openSegmentFile", "nil")
    /\ reopens = 0
    /\ mu = MutexFree
    /\ pc = [t \in Threads |-> "idle"]
    /\ loc = [t \in Threads |-> NoLocals]
    /\ raced = FALSE

\* The return of segment.Write(data), w being [seg, file, position, err]
SegmentWriteReturns(data, w) ==
    /\ segs' = [segs EXCEPT ![activeSegment] = w.seg]
    /\ files' = IF activeSegment \in DOMAIN files
                THEN [files EXCEPT ![activeSegment] = w.file] ELSE files
    /\ written' = IF w.err = "nil"
                  THEN Append(written, [data |-> data, position |-> w.position,
                                        activeBefore |-> activeSegment,
                                        sizeBefore |-> Size(segs[activeSegment]),
                                        by |-> "segment.Write"])
                  ELSE written
    /\ lastOp' = [Op("segment.Write", w.err) EXCEPT !.arg = Len(data)]

SegmentWrite(n) ==
    /\ Len(written) < MaxWrites
    /\ SegmentWriteReturns(Payload(Len(written) + 1, n),
                           segmentWrite(segs[activeSegment], FileOf(activeSegment),
                                        Payload(Len(written) + 1, n)))
    /\ UNCHANGED <<options, pendingWrites, faults, synced, activeSegment, olderSegments,
                   olderNil, bytesWrite, blockCache, reader, reopens, threadVars>>

\* segment.Sync
SegmentSync ==
    /\ setWalState(segmentSync(walState, activeSegment))
    /\ lastOp' = Op("segment.Sync", segmentSyncErr(walState, activeSegment))
    /\ UNCHANGED <<options, pendingWrites, faults, olderNil, blockCache, reader, written,
                   reopens, threadVars>>

\* segment.Close
SegmentClose ==
    /\ segs' = closeSegments(segs, {activeSegment})
    /\ lastOp' = Op("segment.Close", "nil")
    /\ UNCHANGED <<options, pendingWrites, faults, files, synced, activeSegment,
                   olderSegments, olderNil, bytesWrite, blockCache, reader, written,
                   reopens, threadVars>>

\* segment.Remove: close the segment if it is open, then os.Remove of its file
SegmentRemove ==
    /\ segs' = closeSegments(segs, {activeSegment})
    /\ files' = removeFiles(files, {activeSegment})
    /\ synced' = removeFiles(synced, {activeSegment})
    /\ lastOp' = Op("segment.Remove", removeErr(files, activeSegment))
    /\ UNCHANGED <<options, pendingWrites, faults, activeSegment, olderSegments, olderNil,
                   bytesWrite, blockCache, reader, written, reopens, threadVars>>

\* Payload lengths of segment.Write: those of Write, a payload of one byte, and
\* payloads that span two and three whole blocks
SegmentPayloadLens ==
    PayloadLens \cup {1, 2 * (blockSize - chunkHeaderSize), 3 * (blockSize - chunkHeaderSize)}

SegmentNext ==
    \/ \E n \in SegmentPayloadLens : SegmentWrite(n)
    \/ SegmentSync
    \/ SegmentClose
    \/ SegmentRemove

SegmentSpec == SegmentInit /\ [][SegmentNext]_vars

\* ------------------------------------------------------------------------
\* Open: the validation of the options
\* ------------------------------------------------------------------------
\* strings.HasPrefix(ext, "."), the extension being a sequence of characters
hasDotPrefix(ext) == Len(ext) > 0 /\ Head(ext) = "."

\* What the two tests at the start of Open return.  uint32(options.SegmentSize)
\* keeps the low 32 bits of the int64.
openErr(opts) ==
    IF ~hasDotPrefix(opts.SegmentFileExt) THEN "ErrSegmentFileExt"
    ELSE IF opts.BlockCache > U32(opts.SegmentSize) THEN "ErrBlockCache"
    ELSE "nil"

\* Options handed to Open: extensions with and without the leading '.',
\* segment sizes below, at and above the range of a uint32, block caches from
\* 0 to the greatest uint32
OpenOptionSet ==
    [SegmentSize : {0, 1, blockSize, SegmentSize, uint32Range - 1, uint32Range,
                    uint32Range + 1, uint32Range + blockSize, 2 * uint32Range},
     BlockCache : {0, 1, blockSize, SegmentSize + 1, uint32Range - 1},
     Sync : {FALSE},
     BytesPerSync : {0},
     SegmentFileExt : {<<>>, <<"S">>, <<".">>, <<".", "S">>}]

\* Before Open: an empty directory and no WAL
OpenInit ==
    /\ options \in OpenOptionSet
    /\ files = [id \in {} |-> <<>>]
    /\ synced = [id \in {} |-> 0]
    /\ segs = [id \in {} |-> openSegmentFile(id, 0)]
    /\ activeSegment = 0
    /\ olderSegments = {}
    /\ olderNil = TRUE
    /\ bytesWrite = 0
    /\ pendingWrites = <<>>
    /\ faults = 0
    /\ blockCache = <<>>
    /\ reader = NoReader
    /\ written = <<>>
    /\ lastOp = Op("none", "nil")
    /\ reopens = 0
    /\ mu = MutexFree
    /\ pc = [t \in Threads |-> "idle"]
    /\ loc = [t \in Threads |-> NoLocals]
    /\ raced = FALSE

\* Open(options) on the empty directory: the options are refused, or the WAL
\* is built with segment initialSegmentFileID
OpenWithOptions ==
    /\ lastOp.op = "none"
    /\ lastOp' = Op("Open", openErr(options))
    /\ IF openErr(options) = "nil"
       THEN /\ files' = openDir(files)
            /\ synced' = (initialSegmentFileID :> 0)
            /\ segs' = openSegments(files)
            /\ activeSegment' = openActive(files)
            /\ olderNil' = FALSE
       ELSE UNCHANGED <<files, synced, segs, activeSegment, olderNil>>
    /\ UNCHANGED <<options, pendingWrites, faults, olderSegments, bytesWrite, blockCache,
                   reader, written, reopens, threadVars>>

\* The caller gives up the WAL, or the error, that Open returned
OpenForget ==
    /\ lastOp.op = "Open"
    /\ lastOp' = Op("forgotten", lastOp.err)
    /\ UNCHANGED <<options, pendingWrites, faults, files, synced, segs, activeSegment,
                   olderSegments, olderNil, bytesWrite, blockCache, reader, written,
                   reopens, threadVars>>

OpenNext == OpenWithOptions \/ OpenForget

OpenSpec == OpenInit /\ [][OpenNext]_vars

\* ------------------------------------------------------------------------
\* One segment by sizes: segment.Write on files and payloads of any length.
\* In this specification files maps the segment id to the LENGTH of the file
\* (an int64), not to its bytes, and an entry of written holds the length of
\* the payload and the chunks that were framed for it.
\* ------------------------------------------------------------------------
\* Turns of the loop of segment.Write the model follows for one record
MaxChunks == 5

\* Lengths of the file the segment is opened on: up to one block, and around
\* the range of a uint32
SizeFileSizes ==
    (0..blockSize)
    \cup {uint32Range - blockSize + k : k \in {0, 3, blockSize - chunkHeaderSize}}
    \cup {uint32Range + k : k \in {0, 3, blockSize + 2}}

\* len(data): the payload lengths of segment.Write, and lengths around the
\* range of a uint32
SizePayloadLens ==
    SegmentPayloadLens
    \cup {uint32Range - chunkHeaderSize - 1, uint32Range - chunkHeaderSize,
          uint32Range, uint32Range + 1, uint32Range + blockSize}

SizeInit ==
    /\ options = [SegmentSize |-> 4 * uint32Range, BlockCache |-> 0, Sync |-> FALSE,
                  BytesPerSync |-> 0]
    /\ \E offset \in SizeFileSizes :
          /\ files = (initialSegmentFileID :> offset)
          /\ synced = (initialSegmentFileID :> offset)
          /\ segs = (initialSegmentFileID :> openSegmentFile(initialSegmentFileID, offset))
    /\ activeSegment = initialSegmentFileID
    /\ olderSegments = {}
    /\ olderNil = FALSE
    /\ bytesWrite = 0
    /\ pendingWrites = <<>>
    /\ faults = 0
    /\ blockCache = <<>>
    /\ reader = NoReader
    /\ written = <<>>
    /\ lastOp = Op("openSegmentFile", "nil")
    /\ reopens = 0
    /\ mu = MutexFree
    /\ pc = [t \in Threads |-> "idle"]
    /\ loc = [t \in Threads |-> NoLocals]
    /\ raced = FALSE

\* The loop of segment.Write would take more than MaxChunks turns
loopTooLong(seg, n) ==
    /\ ~fitsInBlock(writePadding(seg, <<>>).seg, U32(n))
    /\ U32(n) > MaxChunks * (blockSize - chunkHeaderSize)

\* The return of segment.Write(data) with len(data) = n, w being
\* [seg, fileSize, chunks, position, err]
SizeWriteReturns(n, w) ==
    /\ segs' = [segs EXCEPT ![activeSegment] = w.seg]
    /\ files' = [files EXCEPT ![activeSegment] = w.fileSize]
    /\ written' = IF w.err = "nil"
                  THEN Append(written, [size |-> n, position |-> w.position,
                                        chunks |-> w.chunks,
                                        fileBefore |-> files[activeSegment],
                                        fileAfter |-> w.fileSize,
                                        sizeAfter |-> Size(w.seg)])
                  ELSE written
    /\ lastOp' = [Op("segment.Write", w.err) EXCEPT !.arg = n]

SizeWrite(n) ==
    /\ Len(written) < MaxWrites
    /\ ~loopTooLong(segs[activeSegment], n)
    /\ SizeWriteReturns(n, segmentWriteSize(segs[activeSegment], files[activeSegment], n))
    /\ UNCHANGED <<options, pendingWrites, faults, synced, activeSegment, olderSegments,
                   olderNil, bytesWrite, blockCache, reader, reopens, threadVars>>

\* segment.Read(blockNumber, chunkOffset) up to its ReadAt: the byte offset of
\* the block it reads, for the position of a record that was written
SizeReadAt(i) ==
    /\ i \in 1..Len(written)
    /\ lastOp' = [Op("segment.Read", "nil") EXCEPT
                     !.arg = i,
                     !.ret = U32(written[i].position.BlockNumber * blockSize)]
    /\ UNCHANGED <<options, pendingWrites, faults, files, synced, segs, activeSegment,
                   olderSegments, olderNil, bytesWrite, blockCache, reader, written,
                   reopens, threadVars>>

SizeNext ==
    \/ \E n \in SizePayloadLens : SizeWrite(n)
    \/ \E i \in 1..MaxWrites : SizeReadAt(i)

SizeSpec == SizeInit /\ [][SizeNext]_vars

\* ------------------------------------------------------------------------
\* Damage on disk: after the writes one byte of one segment file is altered,
\* and the records are read.  No block cache: every Read reads the file.
\* ------------------------------------------------------------------------
AlterInit ==
    /\ InitWith({[SegmentSize |-> SegmentSize, BlockCache |-> 0, Sync |-> FALSE,
                  BytesPerSync |-> 0]})
    /\ faults = 0

\* The file is as the writes left it
unaltered == lastOp.op \in {"Open", "Write"}

\* The values a byte is altered to: the byte plus one, and the byte with the
\* bit of value 64 flipped
alteredValues(b) == {(b + 1) % 256, IF (b \div 64) % 2 = 0 THEN b + 64 ELSE b - 64}

\* Byte j (counted from 1) of the file of segment id is overwritten with v;
\* lastOp keeps the segment id in ret and j in arg
AlterByte(id, j, v) ==
    /\ unaltered
    /\ id \in DOMAIN files
    /\ j \in 1..Len(files[id])
    /\ v \in alteredValues(files[id][j])
    /\ files' = [files EXCEPT ![id][j] = v]
    /\ lastOp' = [Op("alter", "nil") EXCEPT !.arg = j, !.ret = id]
    /\ UNCHANGED <<options, pendingWrites, faults, synced, segs, activeSegment,
                   olderSegments, olderNil, bytesWrite, blockCache, reader, written,
                   reopens, threadVars>>

\* WAL.Read of the position the i-th Write returned, once the byte is altered;
\* lastOp keeps the altered byte and holds the position read in positions
AlterRead(i) ==
    /\ ~unaltered
    /\ i \in 1..Len(written)
    /\ blockCache' = walRead(written[i].position).cache
    /\ lastOp' = [lastOp EXCEPT !.op = "Read",
                                !.err = walRead(written[i].position).err,
                                !.positions = <<written[i].position>>]
    /\ UNCHANGED <<options, pendingWrites, faults, files, synced, segs, activeSegment,
                   olderSegments, olderNil, bytesWrite, reader, written, reopens,
                   threadVars>>

AlterNext ==
    \/ \E n \in PayloadLens : (unaltered /\ Write(n))
    \/ \E id \in 1..MaxSegments : \E j \in 1..SegmentSize : \E v \in 0..255 :
          AlterByte(id, j, v)
    \/ \E i \in 1..MaxWrites : AlterRead(i)

AlterSpec == AlterInit /\ [][AlterNext]_vars

\* ------------------------------------------------------------------------
\* The concurrent specification: threads call the WAL at the same time.  A
\* Write is a sequence of steps under the exclusive lock: the tests, the
\* roll-over and the padding; then for every chunk the append to the file and
\* the update of the block counters; then the return.
\* ------------------------------------------------------------------------
ConcOptions ==
    { [SegmentSize |-> SegmentSize, BlockCache |-> 0, Sync |-> FALSE, BytesPerSync |-> 0] }

\* Payload lengths of the concurrent writers: a FULL chunk that leaves a block
\* tail of 3 bytes, and a record of two chunks
ConcPayloadLens == {blockSize - chunkHeaderSize - 3, blockSize - chunkHeaderSize + 3}

ConcInit == InitWith(ConcOptions) /\ faults = 0

inWrite(t) == pc[t] \in {"Write:lock", "Write:wait", "Write:begin", "Write:append", "Write:count", "Write:end"}

\* Some writer has appended a chunk and not yet updated the block counters, or
\* has written a part of the chunks of its record
midWrite ==
    \E t \in Threads :
        \/ pc[t] = "Write:count"
        \/ pc[t] = "Write:append" /\ loc[t].leftSize < Len(loc[t].data)

goto(t, label) == pc' = [pc EXCEPT ![t] = label]

return(t) == /\ pc' = [pc EXCEPT ![t] = "idle"]
             /\ loc' = [loc EXCEPT ![t] = NoLocals]

\* Thread t calls WAL.Write with the next payload, of n bytes
WriteCall(t, n) ==
    /\ pc[t] = "idle"
    /\ Len(written) + Cardinality({u \in Threads : inWrite(u)}) < MaxWrites
    /\ goto(t, "Write:lock")
    /\ loc' = [loc EXCEPT ![t] = [NoLocals EXCEPT !.data =
                  Payload(Len(written) + Cardinality({u \in Threads : inWrite(u)}) + 1, n)]]
    /\ UNCHANGED <<walVars, mu, raced>>

\* wal.mu.Lock() of WAL.Write: the writer announces itself, which keeps later
\* RLocks out, ...
WriteLock(t) ==
    /\ pc[t] = "Write:lock"
    /\ canLock(mu)
    /\ mu' = [mu EXCEPT !.writer = t]
    /\ goto(t, "Write:wait")
    /\ UNCHANGED <<walVars, loc, raced>>

\* ... and goes ahead once the readers have left
WriteAcquire(t) ==
    /\ pc[t] = "Write:wait"
    /\ lockGranted(mu, t)
    /\ goto(t, "Write:begin")
    /\ UNCHANGED <<walVars, mu, loc, raced>>

\* The start of activeSegment.Write in the state st: the padding step, the
\* start position, and the test whether the record is one FULL chunk
WriteBeginPadded(t, st, p) ==
    /\ setWalState([st EXCEPT !.segs[st.activeSegment] = p.seg,
                             !.files[st.activeSegment] = p.file])
    /\ loc' = [loc EXCEPT ![t] =
                 [@ EXCEPT !.position = [SegmentId |-> st.activeSegment,
                                         BlockNumber |-> p.seg.currentBlockNumber,
                                         ChunkOffset |-> p.seg.currentBlockSize,
                                         ChunkSize |-> 0],
                           !.leftSize = U32(Len(loc[t].data)),
                           !.full = fitsInBlock(p.seg, U32(Len(loc[t].data))),
                           !.fileSize = Len(p.file),
                           !.activeBefore = activeSegment,
                           !.sizeBefore = Size(segs[activeSegment])]]
    /\ goto(t, "Write:append")
    /\ UNCHANGED <<mu, lastOp>>

\* WAL.Write after the roll-over test, r being [st, err] of the roll-over
WriteBeginActive(t, r) ==
    WriteBeginPadded(t, r.st, writePadding(r.st.segs[r.st.activeSegment],
                                           fileIn(r.st, r.st.activeSegment)))

WriteBegin(t) ==
    /\ pc[t] = "Write:begin"
    /\ IF valueTooLarge(loc[t].data)
       THEN /\ lastOp' = [Op("Write", "ErrValueTooLarge") EXCEPT !.arg = Len(loc[t].data)]
            /\ mu' = [mu EXCEPT !.writer = "none"]
            /\ return(t)
            /\ UNCHANGED <<files, synced, segs, activeSegment, olderSegments, bytesWrite>>
       ELSE WriteBeginActive(t, IF isFull(walState, Len(loc[t].data))
                                THEN rollOver(walState)
                                ELSE [st |-> walState, err |-> "nil"])
    /\ UNCHANGED <<options, pendingWrites, faults, olderNil, blockCache, reader, written, reopens, raced>>

\* The chunk the writer is at: the whole payload as a FULL chunk, or the next
\* chunk of the loop
currentChunk(t) ==
    IF loc[t].full
    THEN [chunkSize |-> loc[t].leftSize, chunk |-> loc[t].data, chunkType |-> ChunkTypeFull]
    ELSE nextChunk(segs[activeSegment], loc[t].data, loc[t].leftSize)

\* writeInternal up to seg.fd.Write: the chunk is appended to the file
WriteAppend(t) ==
    /\ pc[t] = "Write:append"
    /\ files' = [files EXCEPT ![activeSegment] =
                    writeInternal(segs[activeSegment], @, currentChunk(t).chunk,
                                  currentChunk(t).chunkType).file]
    /\ goto(t, "Write:count")
    /\ UNCHANGED <<options, pendingWrites, faults, synced, segs, activeSegment, olderSegments, olderNil, bytesWrite,
                   blockCache, reader, written, lastOp, reopens, mu, loc, raced>>

\* The rest of writeInternal: the block counters move behind the chunk
WriteCount(t) ==
    /\ pc[t] = "Write:count"
    /\ segs' = [segs EXCEPT ![activeSegment] =
                   writeInternal(@, <<>>, currentChunk(t).chunk, currentChunk(t).chunkType).seg]
    /\ loc' = [loc EXCEPT ![t].leftSize = @ - currentChunk(t).chunkSize]
    /\ goto(t, IF loc[t].leftSize - currentChunk(t).chunkSize > 0
               THEN "Write:append" ELSE "Write:end")
    /\ UNCHANGED <<options, pendingWrites, faults, files, synced, activeSegment, olderSegments, olderNil, bytesWrite,
                   blockCache, reader, written, lastOp, reopens, mu, raced>>

\* The position activeSegment.Write returns to WAL.Write
writtenPosition(t) ==
    [loc[t].position EXCEPT !.ChunkSize = chunkSizeOf(loc[t].fileSize, Len(FileOf(activeSegment)))]

\* The end of WAL.Write: bytesWrite, the sync, the return and the Unlock
WriteEnd(t) ==
    /\ pc[t] = "Write:end"
    /\ setWalState(writeSync(walState, writtenPosition(t)))
    /\ written' = Append(written, [data |-> loc[t].data, position |-> writtenPosition(t),
                                   activeBefore |-> loc[t].activeBefore,
                                   sizeBefore |-> loc[t].sizeBefore, by |-> "Write"])
    /\ lastOp' = [Op("Write", "nil") EXCEPT !.arg = Len(loc[t].data)]
    /\ mu' = [mu EXCEPT !.writer = "none"]
    /\ return(t)
    /\ UNCHANGED <<options, pendingWrites, faults, olderNil, blockCache, reader, reopens, raced>>

\* wal.mu.RLock() of WAL.Read
ReadCall(t, pos) ==
    /\ pc[t] = "idle"
    /\ canRLock(mu)
    /\ mu' = [mu EXCEPT !.readers[t] = @ + 1]
    /\ goto(t, "Read:body")
    /\ loc' = [loc EXCEPT ![t] = [NoLocals EXCEPT !.position = pos]]
    /\ UNCHANGED <<walVars, raced>>

\* The rest of WAL.Read, with the RUnlock
ReadBody(t) ==
    /\ pc[t] = "Read:body"
    /\ ReadReturns(loc[t].position, walRead(loc[t].position))
    /\ raced' = (raced \/ midWrite)
    /\ mu' = [mu EXCEPT !.readers[t] = @ - 1]
    /\ return(t)
    /\ UNCHANGED <<options, pendingWrites, faults, files, synced, segs, activeSegment, olderSegments, olderNil,
                   bytesWrite, reader, written, reopens>>

\* WAL.NewReader: NewReaderWithMax(0) takes and releases the shared lock
NewReaderCall(t) ==
    /\ pc[t] = "idle"
    /\ canRLock(mu)
    /\ reader' = freshReader(newReaderWithMax(0), 0)
    /\ lastOp' = Op("NewReader", "nil")
    /\ UNCHANGED <<options, pendingWrites, faults, files, synced, segs, activeSegment, olderSegments, olderNil,
                   bytesWrite, blockCache, written, reopens, threadVars>>

\* Reader.Next: it takes no lock
NextCall(t) ==
    /\ pc[t] = "idle"
    /\ reader.open
    /\ reader.err = "nil"
    /\ NextReturns(readerNext([segmentReaders |-> reader.segmentReaders,
                               currentReader |-> reader.currentReader], blockCache))
    /\ raced' = (raced \/ midWrite)
    /\ UNCHANGED <<options, pendingWrites, faults, files, synced, segs, activeSegment, olderSegments, olderNil,
                   bytesWrite, written, reopens, mu, pc, loc>>

\* Start positions handed to NewReaderWithStart
StartPositions ==
    {written[i].position : i \in 1..Len(written)}
    \cup {[SegmentId |-> initialSegmentFileID, BlockNumber |-> 0, ChunkOffset |-> 0,
           ChunkSize |-> 0]}

\* wal.mu.RLock() of WAL.NewReaderWithStart
NewReaderWithStartCall(t, startPos) ==
    /\ pc[t] = "idle"
    /\ canRLock(mu)
    /\ mu' = [mu EXCEPT !.readers[t] = @ + 1]
    /\ goto(t, "NewReaderWithStart:NewReader")
    /\ loc' = [loc EXCEPT ![t] = [NoLocals EXCEPT !.position = startPos]]
    /\ UNCHANGED <<walVars, raced>>

\* The rest of NewReaderWithStart: wal.NewReader(), which takes the shared
\* lock again in NewReaderWithMax, then the loop, then the RUnlock
NewReaderWithStartBody(t) ==
    /\ pc[t] = "NewReaderWithStart:NewReader"
    /\ canRLock(mu)
    /\ NewReaderWithStartReturns(seekStart(newReaderWithMax(0), blockCache, loc[t].position),
                                 loc[t].position)
    /\ raced' = (raced \/ midWrite)
    /\ mu' = [mu EXCEPT !.readers[t] = @ - 1]
    /\ return(t)
    /\ UNCHANGED <<options, pendingWrites, faults, files, synced, segs, activeSegment,
                   olderSegments, olderNil, bytesWrite, written, reopens>>

ConcNext ==
    \E t \in Threads :
        \/ \E n \in ConcPayloadLens : WriteCall(t, n)
        \/ WriteLock(t)
        \/ WriteAcquire(t)
        \/ WriteBegin(t)
        \/ WriteAppend(t)
        \/ WriteCount(t)
        \/ WriteEnd(t)
        \/ \E i \in 1..Len(written) : ReadCall(t, written[i].position)
        \/ ReadBody(t)
        \/ NewReaderCall(t)
        \/ NextCall(t)
        \/ \E startPos \in StartPositions : NewReaderWithStartCall(t, startPos)
        \/ NewReaderWithStartBody(t)

ConcSpec == ConcInit /\ [][ConcNext]_vars

\* ------------------------------------------------------------------------
\* Properties
\* ------------------------------------------------------------------------
\* Is the WAL open?
isOpen == ~segs[activeSegment].closed

\* C1: every position a successful Write returned reads back, on the open WAL,
\* exactly the payload of that Write, whatever writes, roll-overs,
\* OpenNewActiveSegment calls and reads came in between.
C1_ReadReturnsPayload ==
    isOpen =>
        \A i \in 1..Len(written) :
            /\ walRead(written[i].position).err = "nil"
            /\ walRead(written[i].position).data = written[i].data

\* C1 witness: two records were written, the first one is in a sealed segment
\* by now and spans several blocks, blocks of it sit in the cache and a Read
\* has just returned.
C1_Witness ==
    /\ Len(written) = 2
    /\ written[1].position.SegmentId < activeSegment
    /\ Len(written[1].data) > blockSize
    /\ blockCache # <<>>
    /\ lastOp.op = "Read"
    /\ lastOp.err = "nil"

\* Does the record at p end before the record at q starts?
recordBefore(p, q) ==
    \/ p.SegmentId < q.SegmentId
    \/ /\ p.SegmentId = q.SegmentId
       /\ p.BlockNumber * blockSize + p.ChunkOffset + p.ChunkSize
            <= q.BlockNumber * blockSize + q.ChunkOffset

\* Do the reader's position q and the position p name the same place?
samePlace(q, p) ==
    /\ q.SegmentId = p.SegmentId
    /\ q.BlockNumber = p.BlockNumber
    /\ q.ChunkOffset = p.ChunkOffset

\* What the reader handed out by NewReader returned so far is a prefix of the
\* records written, each at the position Write returned, and it stops only
\* with EOF, after the last record
readerYieldsWrites ==
    reader.open =>
        /\ Len(reader.yielded) <= Len(written)
        /\ \A i \in 1..Len(reader.yielded) :
              /\ i <= Len(written)
              /\ reader.yielded[i].data = written[i].data
              /\ samePlace(reader.yielded[i].position, written[i].position)
        /\ reader.err # "nil" =>
              /\ reader.err = "EOF"
              /\ Len(reader.yielded) = Len(written)

\* C2: after any sequence of successful Write calls, the reader from NewReader
\* returns on successive Next calls exactly the written payloads in write
\* order, each with the position Write returned, and then EOF.
C2_NewReaderYieldsWrites == isOpen => readerYieldsWrites

\* C3: after Close and Open with the same options every record is returned by
\* Read at its original position and by a NewReader iteration, in order, and
\* a Write after the reopen is appended behind the existing records.
C3_ReopenKeepsRecords ==
    (reopens > 0 /\ isOpen) =>
        /\ \A i \in 1..Len(written) :
              /\ walRead(written[i].position).err = "nil"
              /\ walRead(written[i].position).data = written[i].data
        /\ readerYieldsWrites
        /\ \A i \in 1..Len(written) : \A j \in 1..Len(written) :
              i < j => recordBefore(written[i].position, written[j].position)

\* C4: concurrent Write calls take effect one at a time, in the order in which
\* they acquire the exclusive lock: the positions returned are pairwise
\* distinct, the byte ranges of the records do not overlap, and each position
\* reads back the payload of the call that returned it.
C4_WritesSerialized ==
    /\ \A i \in 1..Len(written) : \A j \in 1..Len(written) :
          i < j => /\ ~samePlace(written[i].position, written[j].position)
                   /\ recordBefore(written[i].position, written[j].position)
    /\ \A i \in 1..Len(written) :
          /\ walRead(written[i].position).err = "nil"
          /\ walRead(written[i].position).data = written[i].data

\* C4 witness: two Write calls ran at the same time and the one that was
\* called second took the lock first; both have returned.
C4_Witness ==
    /\ Len(written) = 2
    /\ written[1].data = Payload(2, Len(written[1].data))
    /\ written[2].data = Payload(1, Len(written[2].data))
    /\ Len(written[2].data) > 0

\* C5: a reader never observes a mid-write state: no Read and no Reader.Next
\* runs while a writer is between appending bytes and updating the block
\* counters of its record, and no reader returns a partially written record
\* (which shows as an error other than EOF).
C5_ReadersSeeNoMidWrite ==
    /\ ~raced
    /\ reader.open => reader.err \in {"nil", "EOF"}
    /\ lastOp.op = "Read" => lastOp.err = "nil"

\* Thread t is inside a call and waits for the lock
blocked(t) ==
    \/ pc[t] = "Write:lock" /\ ~canLock(mu)
    \/ pc[t] = "Write:wait" /\ ~lockGranted(mu, t)
    \/ pc[t] = "NewReaderWithStart:NewReader" /\ ~canRLock(mu)

\* C6: no set of concurrent calls blocks forever on the lock: whenever calls
\* are in progress, one of them can take its next step (threads that all wait
\* for each other wait forever).
C6_NoCallBlocksForever ==
    (\E t \in Threads : pc[t] # "idle") =>
        \E t \in Threads : pc[t] # "idle" /\ ~blocked(t)

\* A step that is a successful WAL.Write: the only call that extends written
writeSucceeds == Len(written') = Len(written) + 1

\* C7: a Write of an accepted payload rolls over (the active segment is
\* fsynced and sealed, segment active.id + 1 becomes the active one and takes
\* the record) if and only if active.Size() + len(payload) + 7 > SegmentSize
\* when the write starts; otherwise the record goes to the active segment and
\* the set of segments is unchanged.
C7_RollOverIffFull ==
    [][writeSucceeds =>
        LET w == written'[Len(written')]
        IN IF Size(segs[activeSegment]) + Len(w.data) + chunkHeaderSize > options.SegmentSize
           THEN /\ activeSegment' = activeSegment + 1
                /\ olderSegments' = olderSegments \cup {activeSegment}
                /\ DOMAIN files' = DOMAIN files \cup {activeSegment + 1}
                /\ files'[activeSegment] = files[activeSegment]
                /\ synced'[activeSegment] = Len(files[activeSegment])
                /\ w.position.SegmentId = activeSegment + 1
           ELSE /\ activeSegment' = activeSegment
                /\ olderSegments' = olderSegments
                /\ DOMAIN files' = DOMAIN files
                /\ w.position.SegmentId = activeSegment
                /\ \A id \in olderSegments : files'[id] = files[id]]_vars

\* C7 witness: of two successful writes the first went to the segment that was
\* active and the second rolled over.
C7_Witness ==
    /\ Len(written) = 2
    /\ written[1].position.SegmentId = written[1].activeBefore
    /\ written[2].position.SegmentId = written[2].activeBefore + 1
    /\ written[2].sizeBefore > 0
    /\ lastOp.op = "Write"

\* C8: no segment file is larger than SegmentSize, chunk headers and block
\* padding counted.
C8_SegmentWithinSegmentSize ==
    \A id \in DOMAIN files : Len(files[id]) <= options.SegmentSize

\* C9: a Write with len(payload) + 7 > SegmentSize returns ValueTooLarge and
\* changes nothing: no segment is created or sealed, no byte is appended, and
\* bytesWrite keeps its value.
C9_ValueTooLargeChangesNothing ==
    [][(lastOp'.op = "Write" /\ lastOp'.arg + chunkHeaderSize > options.SegmentSize) =>
          /\ lastOp'.err = "ErrValueTooLarge"
          /\ UNCHANGED <<files, synced, segs, activeSegment, olderSegments, olderNil,
                         bytesWrite, blockCache, written>>]_vars

\* C9 witness: a Write of a payload that is too large has returned
\* ValueTooLarge on a WAL that holds a record and whose active segment the
\* payload would not fit into.
C9_Witness ==
    /\ lastOp.op = "Write"
    /\ lastOp.err = "ErrValueTooLarge"
    /\ lastOp.arg + chunkHeaderSize > options.SegmentSize
    /\ Len(written) > 0
    /\ bytesWrite > 0

\* Is segmentId the id of the active segment or a key of olderSegments?
segmentKnown(segmentId) ==
    segmentId = activeSegment \/ (~olderNil /\ segmentId \in olderSegments)

\* The part of the WAL that is not the block cache
logState == <<files, synced, segs, activeSegment, olderSegments, olderNil, bytesWrite>>

\* A step that is a WAL.Read
readReturns == lastOp'.op = "Read"

\* Read fails with segment-not-found exactly when the id is neither the active
\* one nor a key of olderSegments; otherwise the addressed segment is read and
\* its result returned
readFindsSegment ==
    IF segmentKnown(lastOp'.arg)
    THEN /\ lastOp'.err # "ErrSegmentNotFound"
         /\ \E pos \in ReadPositions :
               /\ pos.SegmentId = lastOp'.arg
               /\ lastOp'.err = segmentRead(segs[pos.SegmentId], FileOf(pos.SegmentId),
                                            blockCache, capacity, pos.BlockNumber,
                                            pos.ChunkOffset).err
    ELSE lastOp'.err = "ErrSegmentNotFound"

\* C10 as stated: Read returns segment-not-found whenever the id is neither
\* the active one nor a key of the sealed map, delegates otherwise, and the
\* call changes no WAL state, the block cache included.
C10_ReadChangesNoState ==
    [][readReturns => (readFindsSegment /\ UNCHANGED <<logState, blockCache>>)]_vars

\* C10 amended: Read returns segment-not-found whenever the id is neither the
\* active one nor a key of the sealed map, and then changes nothing; otherwise
\* it delegates to the addressed segment and changes no WAL state other than
\* the block cache.
C10_ReadChangesOnlyCache ==
    [][readReturns =>
          /\ readFindsSegment
          /\ UNCHANGED logState
          /\ lastOp'.err = "ErrSegmentNotFound" => UNCHANGED blockCache]_vars

\* C10 witness: a Read of an unknown segment id has returned segment-not-found
\* on a WAL with a sealed segment, an active segment and a block in the cache.
C10_Witness ==
    /\ lastOp.op = "Read"
    /\ lastOp.err = "ErrSegmentNotFound"
    /\ olderSegments # {}
    /\ blockCache # <<>>
    /\ Len(written) > 0

\* A call made on a WAL whose Close has returned
afterClose == segs[activeSegment].closed /\ olderNil

\* C11: after Close has returned, every Write, Read and OpenNewActiveSegment
\* fails with the Closed error, creates no segment file, appends no byte and
\* does not panic, and a second Close returns no error.
C11_ClosedCallsFail ==
    [][afterClose =>
          /\ lastOp'.op \in {"Write", "Read", "OpenNewActiveSegment"} =>
                (lastOp'.err = "ErrClosed" /\ files' = files)
          /\ lastOp'.op = "Close" => lastOp'.err = "nil"]_vars

\* Bytes of segment id that no fsync has covered
unsynced(id) == Len(files[id]) - synced[id]

\* The last call was a Write that returned a position and no error
wroteLast == lastOp.op = "Write" /\ lastOp.err = "nil"

\* C12: with options.Sync, whenever Write returns successfully every byte
\* appended to the active segment so far has been fsynced.
C12_SyncAfterEveryWrite ==
    (options.Sync /\ wroteLast) => unsynced(activeSegment) = 0

\* C12 witness: with options.Sync a Write has returned successfully after an
\* earlier call was failed an fsync, and the active segment holds bytes.
C12_Witness ==
    /\ options.Sync
    /\ wroteLast
    /\ faults < MaxFaults
    /\ Len(files[activeSegment]) > 0
    /\ Len(written) = 2

\* C13: with Sync off and BytesPerSync = N > 0, whenever Write returns
\* successfully fewer than N bytes (padding included) were appended to the
\* active segment since its most recent fsync.
C13_SyncEveryBytesPerSync ==
    (~options.Sync /\ options.BytesPerSync > 0 /\ wroteLast) =>
        unsynced(activeSegment) < options.BytesPerSync

\* C15: when Close returns successfully, every byte of every segment file,
\* the active one included, has been fsynced.
C15_CloseSyncs ==
    (lastOp.op = "Close" /\ lastOp.err = "nil") =>
        \A id \in DOMAIN files : unsynced(id) = 0

\* The sealed segments: the keys of olderSegments
sealed == IF olderNil THEN {} ELSE olderSegments

\* A call whose first fd.Sync was failed by the file system, made on an open
\* WAL, that has to seal the active segment before anything else: an
\* OpenNewActiveSegment, or a Write of a payload that makes the segment roll over
sealingFailsSync ==
    /\ ~segs[activeSegment].closed
    /\ lastOp'.io = <<"EIO">>
    /\ \/ lastOp'.op = "OpenNewActiveSegment"
       \/ /\ lastOp'.op = "Write"
          /\ lastOp'.arg + chunkHeaderSize <= options.SegmentSize
          /\ isFull(walState, lastOp'.arg)

\* No sealed segment holds bytes that no fsync has covered
sealedSynced == \A id \in sealed : id \in DOMAIN files => unsynced(id) = 0

writeAllReturns == lastOp'.op = "WriteAll" /\ lastOp'.err = "nil"

\* WriteAll returned one position for every staged payload, in submission
\* order, and left the staging area empty; with nothing staged the files stay
\* as they are
returnsStagedInOrder ==
    /\ Len(written') = Len(written) + Len(pendingWrites)
    /\ \A i \in 1..Len(pendingWrites) : written'[Len(written) + i].data = pendingWrites[i]
    /\ \A i \in 1..Len(pendingWrites) : \A j \in 1..Len(pendingWrites) :
          i < j => recordBefore(written'[Len(written) + i].position,
                                written'[Len(written) + j].position)
    /\ pendingWrites' = <<>>
    /\ pendingWrites = <<>> => UNCHANGED <<files, segs, activeSegment, olderSegments>>

\* Every position returned so far, by Write or by WriteAll, locates its payload
positionsLocatePayloads ==
    \A i \in 1..Len(written) :
        /\ walRead(written[i].position).err = "nil"
        /\ walRead(written[i].position).data = written[i].data

\* C16: WriteAll on n staged records returns exactly n positions in
\* submission order, the i-th position locating the i-th staged payload, a
\* following NewReader iteration yields the same payloads at the same
\* positions, and the staging area is empty after a successful WriteAll; with
\* nothing staged it returns zero positions and an empty WAL stays empty.
C16_WriteAllReturnsPositions ==
    /\ [][writeAllReturns => returnsStagedInOrder]_vars
    /\ []positionsLocatePayloads
    /\ []((\A i \in 1..Len(written) : written[i].by = "WriteAll") => readerYieldsWrites)

\* The positions WriteAll returned in this step
returnedPositions ==
    [i \in 1..Len(pendingWrites) |-> written'[Len(written) + i].position]

\* The step leaves the segments, the block counters, the files, the synced
\* prefixes and bytesWrite as w = [st, positions, err] has them
leavesStateOf(w) ==
    /\ w.err = "nil"
    /\ returnedPositions = w.positions
    /\ files' = w.st.files
    /\ synced' = w.st.synced
    /\ segs' = w.st.segs
    /\ activeSegment' = w.st.activeSegment
    /\ olderSegments' = w.st.olderSegments
    /\ bytesWrite' = w.st.bytesWrite

positionAtOrAfter(p, q) ==
    \/ p.SegmentId > q.SegmentId
    \/ /\ p.SegmentId = q.SegmentId
       /\ \/ p.BlockNumber > q.BlockNumber
          \/ p.BlockNumber = q.BlockNumber /\ p.ChunkOffset >= q.ChunkOffset

\* The records at or after start, in write order
recordsFrom(start) == SelectSeq(written, LAMBDA w : positionAtOrAfter(w.position, start))

\* What the reader returned so far is a prefix of the records e, each at its
\* position, and the reader stops only with EOF, after the last of them
yieldsExactly(e) ==
    /\ Len(reader.yielded) <= Len(e)
    /\ \A i \in 1..Len(reader.yielded) :
          /\ i <= Len(e)
          /\ reader.yielded[i].data = e[i].data
          /\ samePlace(reader.yielded[i].position, e[i].position)
    /\ reader.err # "nil" => (reader.err = "EOF" /\ Len(reader.yielded) = Len(e))

\* The reader at hand was returned by NewReaderWithStart
readerWithStart == reader.open /\ reader.start # NoPosition

\* C19: the reader returned by NewReaderWithStart(start) yields as its first
\* record the earliest record in write order whose position is >= start,
\* positions compared as (segment id, block number, chunk offset), and then
\* every later record in order: no record at or after start is skipped and no
\* record before start is returned.
C19_ReaderStartsAtStart ==
    readerWithStart => yieldsExactly(recordsFrom(reader.start))

\* start is greater than the position of every record of the WAL
beyondEveryRecord(start) ==
    \A i \in 1..Len(written) : ~positionAtOrAfter(written[i].position, start)

\* C20: when start is greater than the position of every existing record (an
\* empty WAL, a start beyond the last record, a start whose segment id is
\* greater than the active segment's), NewReaderWithStart(start) returns a
\* reader without error or panic, and the reader's first Next returns EOF.
C20_StartBeyondEndGivesEOF ==
    /\ (lastOp.op = "NewReaderWithStart" /\ beyondEveryRecord(lastOp.positions[1])) =>
            lastOp.err = "nil"
    /\ (readerWithStart /\ beyondEveryRecord(reader.start)) =>
            (reader.yielded = <<>> /\ reader.err \in {"nil", "EOF"})

\* The records of the segments whose id is <= segId, of all segments when
\* segId = 0, in write order
recordsUpTo(segId) ==
    SelectSeq(written, LAMBDA w : segId = 0 \/ w.position.SegmentId <= segId)

\* The reader at hand was returned by NewReaderWithMax
readerWithMax == reader.open /\ lastOp.op \in {"NewReaderWithMax", "Next"}

\* C21: the reader of NewReaderWithMax(max) iterates, in ascending segment
\* order, exactly the records of the segments whose id is <= max, sealed and
\* active alike, and of all segments when max = 0; records of segments with
\* id > max are never returned.
C21_ReaderWithMaxYieldsUpToMax ==
    readerWithMax =>
        /\ yieldsExactly(recordsUpTo(reader.max))
        /\ \A i \in 1..Len(reader.segmentReaders) :
              /\ reader.max = 0 \/ reader.segmentReaders[i].id <= reader.max
              /\ i > 1 => reader.segmentReaders[i - 1].id < reader.segmentReaders[i].id

\* The WAL consists of a single segment, with id 1 and size 0
singleEmptySegment ==
    /\ DOMAIN files = {initialSegmentFileID}
    /\ Len(files[initialSegmentFileID]) = 0

\* C22: in every reachable state IsEmpty returns true if and only if the WAL
\* consists of a single segment with id 1 and size 0.
C22_IsEmptyIffSingleEmptySegment ==
    lastOp.op = "IsEmpty" => (lastOp.ret = 1 <=> singleEmptySegment)

\* A step that is a Delete of a WAL that was neither closed nor deleted before
deletesOpenWAL == lastOp'.op = "Delete" /\ ~olderNil /\ ~segs[activeSegment].closed

\* A step that is the Open that follows a Delete
opensAfterDelete == lastOp.op = "Delete" /\ lastOp'.op = "Open"

\* C23: after any sequence of writes and roll-overs, Delete removes every
\* segment file of the WAL, the sealed ones and the active one, so that a
\* following Open with the same options creates a fresh segment 1 and IsEmpty
\* is true.
C23_DeleteRemovesEverySegment ==
    /\ [][deletesOpenWAL => (lastOp'.err = "nil" /\ DOMAIN files' = {})]_vars
    /\ [][(opensAfterDelete /\ lastOp.err = "nil") =>
             /\ DOMAIN files' = {initialSegmentFileID}
             /\ Len(files'[initialSegmentFileID]) = 0
             /\ activeSegment' = initialSegmentFileID
             /\ olderSegments' = {}
             /\ walIsEmpty']_vars
    /\ [][(lastOp.op = "Open" /\ reopens > 0 /\ lastOp'.op = "IsEmpty") => lastOp'.ret = 1]_vars

\* Records were written into two segments, the WAL was deleted and opened
\* again, and IsEmpty returned true
C23_Witness ==
    /\ lastOp.op = "IsEmpty"
    /\ lastOp.ret = 1
    /\ reopens > 0
    /\ Len(written) >= 2
    /\ written[1].position.SegmentId < written[Len(written)].position.SegmentId
    /\ DOMAIN files = {initialSegmentFileID}

\* The keys of the map of older segments; the nil map has none
sealedKeys == IF olderNil THEN {} ELSE olderSegments

\* C24: in every reachable state of a WAL after Open there is exactly one
\* active segment, every key of the sealed map is smaller than the active
\* segment's id, and every segment id that exists on disk is either the
\* active id or a key of the sealed map.
C24_SegmentMapInvariants ==
    /\ activeSegment \in DOMAIN segs
    /\ segs[activeSegment].id = activeSegment
    /\ activeSegment \notin sealedKeys
    /\ \A id \in sealedKeys : id < activeSegment
    /\ \A id \in DOMAIN files : id = activeSegment \/ id \in sealedKeys

\* A step that is a call of the read side
readSide ==
    lastOp'.op \in {"Read", "NewReader", "NewReaderWithMax", "NewReaderWithStart",
                    "ActiveSegmentID", "IsEmpty", "Next"}

\* A step that creates a segment or makes the active segment a sealed one
createsOrSeals ==
    \/ activeSegment' # activeSegment
    \/ olderSegments' # olderSegments
    \/ DOMAIN segs' # DOMAIN segs
    \/ DOMAIN files' # DOMAIN files

\* C25: the read-side calls (Read, NewReader, NewReaderWithMax,
\* NewReaderWithStart, ActiveSegmentID, IsEmpty, Reader.Next) never create or
\* seal a segment: they leave the active segment's identity, the sealed map,
\* every segment's size and block counters and the bytes-since-sync counter
\* unchanged; the active-to-sealed transition happens only inside Write,
\* WriteAll and OpenNewActiveSegment.
C25_ReadSideChangesNoSegment ==
    /\ [][readSide => (~createsOrSeals /\ UNCHANGED <<activeSegment, olderSegments, olderNil,
                                                      segs, files, bytesWrite>>)]_vars
    /\ [][createsOrSeals => lastOp'.op \in {"Write", "WriteAll", "OpenNewActiveSegment"}]_vars

\* A reader has crossed from a sealed segment into the next one, after writes
\* that left bytes counted since the last sync
C25_Witness ==
    /\ lastOp.op = "Next"
    /\ lastOp.err = "nil"
    /\ olderSegments # {}
    /\ reader.currentReader >= 1
    /\ bytesWrite > 0

\* The segment id and the block number of a cache key
keySegment(key) == key \div uint32Range

keyBlock(key) == key % uint32Range

\* The block of the active segment that is being written
isCurrentBlock(id, blockNumber) ==
    id = activeSegment /\ blockNumber = segs[activeSegment].currentBlockNumber

\* Every cache entry is a block of blockSize bytes that lies in full inside
\* its segment file and holds the bytes of the file, and is not the block the
\* active segment is writing
cacheHoldsFullBlocks ==
    \A i \in 1..Len(blockCache) :
        LET id == keySegment(blockCache[i].key)
            b == keyBlock(blockCache[i].key)
        IN /\ Len(blockCache[i].block) = blockSize
           /\ id \in DOMAIN files
           /\ (b + 1) * blockSize <= Len(files[id])
           /\ blockCache[i].block = Slice(files[id], b * blockSize, (b + 1) * blockSize)
           /\ ~isCurrentBlock(id, b)

\* Every record that starts in the block being written reads back in full
currentBlockReadsFresh ==
    \A i \in 1..Len(written) :
        isCurrentBlock(written[i].position.SegmentId, written[i].position.BlockNumber) =>
            /\ walRead(written[i].position).err = "nil"
            /\ walRead(written[i].position).data = written[i].data

\* C26: in every reachable state the block cache holds only fully written
\* blocks that can no longer change: it never holds an entry for the active
\* segment's current, incomplete block, so a Read of a record in that block
\* issued after further writes never returns stale or truncated cached bytes.
C26_CacheHoldsOnlyFullBlocks ==
    /\ cacheHoldsFullBlocks
    /\ isOpen => currentBlockReadsFresh

\* A block of the active segment is cached, the block being written holds a
\* record that was written after another one, and a Read has just succeeded
C26_Witness ==
    /\ isOpen
    /\ lastOp.op = "Read"
    /\ lastOp.err = "nil"
    /\ \E i \in 1..Len(blockCache) : keySegment(blockCache[i].key) = activeSegment
    /\ Len(written) >= 2
    /\ isCurrentBlock(written[Len(written)].position.SegmentId,
                      written[Len(written)].position.BlockNumber)

\* A step that is the call op made right after a call op
calledAgain(op) == lastOp.op = op /\ lastOp'.op = op

\* A step that returns no error and leaves the segment and the file system alone
changesNothing == lastOp'.err = "nil" /\ UNCHANGED <<segs, files, synced>>

\* C27: segment Close, Sync and Remove are idempotent: a second call returns
\* no error and leaves the segment and the file system as the first call left
\* them; Remove on an open segment closes it first and then unlinks the file.
C27_CloseSyncRemoveIdempotent ==
    /\ [][calledAgain("segment.Close") => changesNothing]_vars
    /\ [][calledAgain("segment.Sync") => changesNothing]_vars
    /\ [][calledAgain("segment.Remove") => changesNothing]_vars
    /\ [][(lastOp'.op = "segment.Remove" /\ ~segs[activeSegment].closed) =>
             /\ lastOp'.err = "nil"
             /\ segs'[activeSegment].closed
             /\ activeSegment \notin DOMAIN files']_vars

\* C28: Open rejects the options exactly when SegmentFileExt does not begin
\* with '.' or BlockCache > SegmentSize, the comparison being made on the true
\* integer values of the u32 BlockCache and the i64 SegmentSize, for every
\* SegmentSize including values of 4 GiB and more.
C28_OpenRejectsExactly ==
    lastOp.op = "Open" =>
        (lastOp.err # "nil" <=>
            (~hasDotPrefix(options.SegmentFileExt) \/ options.BlockCache > options.SegmentSize))


\* A Write returns successfully: its entry is the new last one of written
writeCompletes ==
    /\ lastOp'.op = "Write"
    /\ lastOp'.err = "nil"
    /\ Len(written') = Len(written) + 1

\* The bytes a completed Write appended to the segment file its position
\* names: the file's length after the call minus its length before, a
\* segment the call created having started empty
bytesAppended ==
    Len(files'[activeSegment'])
        - (IF activeSegment' = activeSegment THEN Len(FileOf(activeSegment)) ELSE 0)

\* C29: the chunk_size of the position a Write returns equals the number of
\* bytes the Write appended to the segment file, padding of the block tail and
\* every chunk of a split record included, and the bytes-since-sync counter
\* grows by exactly that amount (from 0 in a segment the Write created) unless
\* the Write's own fsync resets it.
C29_ChunkSizeIsBytesAppended ==
    [][writeCompletes =>
          /\ written'[Len(written')].position.ChunkSize = bytesAppended
          /\ \/ bytesWrite' = 0
             \/ bytesWrite' = (IF activeSegment' = activeSegment THEN bytesWrite ELSE 0)
                                 + bytesAppended]_vars


\* A segment.Write has returned successfully
segmentWriteCompletes == lastOp.op = "segment.Write" /\ lastOp.err = "nil"

\* C30: after every completed segment.Write the current block size is below
\* the block size, and the block-size assertion of writeInternal never fires,
\* whatever the payload lengths (empty, filling a block exactly, spanning
\* several blocks) and whatever the length of the file the segment was
\* opened on.
C30_BlockSizeBelowBlock ==
    /\ lastOp.err # "panic"
    /\ segmentWriteCompletes => segs[activeSegment].currentBlockSize < blockSize

\* C30 witness: on a segment opened on a file that ends inside a block, a
\* write padded the block tail, and a record as long as three whole blocks
\* was then written from the middle of a block, in chunks over four blocks.
C30_Witness ==
    /\ segmentWriteCompletes
    /\ Len(written) = 2
    /\ written[1].sizeBefore % blockSize # 0
    /\ written[1].position.BlockNumber * blockSize > written[1].sizeBefore
    /\ Len(written[2].data) = 3 * (blockSize - chunkHeaderSize)
    /\ written[2].position.ChunkOffset > 0
    /\ segs[activeSegment].currentBlockNumber = written[2].position.BlockNumber + 3
    /\ Len(FileOf(activeSegment)) = Size(segs[activeSegment])


\* A block size that is 0 or leaves room for a chunk header and one more byte
tailHasRoom(size) == size = 0 \/ size + chunkHeaderSize < blockSize

\* C31 as stated: after every completed segment.Write the current block size
\* is 0 or leaves room for a chunk header and at least one more byte.
C31_TailHasRoomAfterWrite ==
    segmentWriteCompletes => tailHasRoom(segs[activeSegment].currentBlockSize)

\* C31 amended: after every padding step, which is where the start position
\* of a record is taken, the current block size is 0 or leaves room for a
\* chunk header and at least one more byte; a completed segment.Write may leave
\* a shorter tail, which the padding step of the next Write fills.
C31_TailHasRoomAfterPadding ==
    /\ \A i \in 1..Len(written) : tailHasRoom(written[i].position.ChunkOffset)
    /\ ~segs[activeSegment].closed =>
          tailHasRoom(writePadding(segs[activeSegment],
                                   FileOf(activeSegment)).seg.currentBlockSize)

\* C31 witness: a Write padded a block tail and started its record in the
\* next block, and has itself left a tail too short for a header and a byte.
C31_Witness ==
    /\ segmentWriteCompletes
    /\ Len(written) = 2
    /\ written[2].position.ChunkOffset = 0
    /\ written[2].position.BlockNumber * blockSize > written[2].sizeBefore
    /\ ~tailHasRoom(segs[activeSegment].currentBlockSize)


\* The payload bytes carried by the chunks cs[k..]
RECURSIVE carried(_, _)
carried(cs, k) == IF k > Len(cs) THEN 0 ELSE cs[k].size + carried(cs, k + 1)

\* One FULL chunk that starts at the start position and carries the payload
isFullRecord(e) ==
    /\ Len(e.chunks) = 1
    /\ e.chunks[1].chunkType = ChunkTypeFull
    /\ e.chunks[1].ChunkOffset = e.position.ChunkOffset
    /\ e.chunks[1].size = e.size

\* FIRST, MIDDLE ..., LAST in consecutive blocks: the first chunk fills its
\* block from the start position to the end, every following chunk starts at
\* offset 0 and carries min(remaining, blockSize - 7) bytes, and no chunk is
\* empty
isSplitRecord(e) ==
    LET cs == e.chunks
    IN /\ Len(cs) >= 2
       /\ cs[1].chunkType = ChunkTypeFirst
       /\ cs[Len(cs)].chunkType = ChunkTypeLast
       /\ cs[1].ChunkOffset = e.position.ChunkOffset
       /\ cs[1].size = blockSize - e.position.ChunkOffset - chunkHeaderSize
       /\ \A k \in 1..Len(cs) :
             /\ cs[k].size > 0
             /\ cs[k].BlockNumber = e.position.BlockNumber + k - 1
             /\ (1 < k /\ k < Len(cs)) => cs[k].chunkType = ChunkTypeMiddle
             /\ k > 1 => /\ cs[k].ChunkOffset = 0
                         /\ cs[k].size = Min(carried(cs, k), blockSize - chunkHeaderSize)
       /\ carried(cs, 1) = e.size

\* C32: every record is one FULL chunk when its payload of length L, written
\* at offset o, has o + L + 7 <= blockSize, and otherwise a FIRST chunk up to
\* the end of the block, MIDDLE chunks and a LAST chunk in consecutive blocks,
\* none empty, that carry the L bytes of the payload between them.
C32_RecordLayout ==
    \A i \in 1..Len(written) :
        IF written[i].position.ChunkOffset + written[i].size + chunkHeaderSize <= blockSize
        THEN isFullRecord(written[i])
        ELSE isSplitRecord(written[i])


\* C33: every chunk lies inside one block: a chunk whose header starts at
\* offset o of a block and that carries n payload bytes has
\* o + 7 + n <= blockSize, so that n is at most blockSize - 7 and fits the
\* 2-byte length field.
C33_ChunkInsideBlock ==
    \A i \in 1..Len(written) : \A k \in 1..Len(written[i].chunks) :
        /\ written[i].chunks[k].ChunkOffset + chunkHeaderSize + written[i].chunks[k].size
              <= blockSize
        /\ written[i].chunks[k].size < 65536


\* The segment.Write that has just returned was handed the segment with
\* the counters (number, size) and started its record at pos
startsAfter(number, size, pos) ==
    IF size + chunkHeaderSize < blockSize
    THEN pos.BlockNumber = number /\ pos.ChunkOffset = size
    ELSE pos.BlockNumber = number + 1 /\ pos.ChunkOffset = 0

\* The bytes of the file from the end of the previous write up to the start
\* position pos are zeros
paddedUpTo(before, file, pos) ==
    \A j \in (Len(before) + 1)..(pos.BlockNumber * blockSize + pos.ChunkOffset) :
        file[j] = 0

\* C34: a record starts where the previous write ended when the block tail
\* left there has room for a chunk header and a byte, and otherwise at
\* offset 0 of the next block, the tail being filled with zeros; so the
\* record that follows a payload of blockSize - 7 or of blockSize - 7 - 3
\* bytes written at offset 0 of block 0 starts at block 1, offset 0.
C34_StartPositions ==
    /\ [][(lastOp'.op = "segment.Write" /\ lastOp'.err = "nil") =>
             /\ startsAfter(segs[activeSegment].currentBlockNumber,
                            segs[activeSegment].currentBlockSize,
                            written'[Len(written')].position)
             /\ paddedUpTo(files[activeSegment], files'[activeSegment],
                           written'[Len(written')].position)]_vars
    /\ [](( /\ Len(written) = 2
            /\ written[1].sizeBefore = 0
            /\ Len(written[1].data) \in {blockSize - chunkHeaderSize,
                                         blockSize - chunkHeaderSize - 3})
          => ( /\ written[1].position.BlockNumber = 0
               /\ written[1].position.ChunkOffset = 0
               /\ written[2].position.BlockNumber = 1
               /\ written[2].position.ChunkOffset = 0))

\* C34 witness: a payload of blockSize - 7 - 3 bytes was written at the start
\* of an empty segment, and the record written next starts at block 1,
\* offset 0, behind three bytes of padding.
C34_Witness ==
    /\ Len(written) = 2
    /\ written[1].sizeBefore = 0
    /\ Len(written[1].data) = blockSize - chunkHeaderSize - 3
    /\ written[2].sizeBefore = blockSize - 3
    /\ written[2].position.BlockNumber = 1
    /\ Len(FileOf(activeSegment)) > blockSize
    /\ \A j \in (blockSize - 2)..blockSize : FileOf(activeSegment)[j] = 0


\* The cursor of the segment reader that yielded the reader's last record
cursorOfLast ==
    reader.segmentReaders[reader.currentReader + 1]

\* C35: the segment reader skips exactly the block tails the writer padded:
\* after a record is read the cursor of the segment reader is the start
\* position the writer gave to the next record of that segment, whatever tail
\* the record left in its block, so that Next returns every record written and
\* then EOF.
C35_ReaderSkipsWhatWriterPadded ==
    (isOpen /\ reader.open /\ reader.max = 0 /\ reader.start = NoPosition) =>
        /\ reader.err \in {"nil", "EOF"}
        /\ reader.err = "EOF" => Len(reader.yielded) = Len(written)
        /\ \A j \in 1..(Len(written) - 1) :
              ( /\ reader.err = "nil"
                /\ Len(reader.yielded) = j
                /\ written[j + 1].position.SegmentId = written[j].position.SegmentId )
              => /\ cursorOfLast.id = written[j].position.SegmentId
                 /\ cursorOfLast.blockNumber = written[j + 1].position.BlockNumber
                 /\ cursorOfLast.chunkOffset = written[j + 1].position.ChunkOffset


\* C36: a Read that finds its segment open and does not return a record has
\* run past the end of the file or met a damaged chunk, and returns the
\* corrupt-chunk error ErrInvalidCRC: never EOF, never a panic.
C36_ReadPastEndIsCorrupt ==
    ( /\ lastOp.op = "Read"
      /\ segmentKnown(lastOp.arg)
      /\ ~segs[lastOp.arg].closed
      /\ lastOp.err # "nil" )
    => lastOp.err = "ErrInvalidCRC"


\* The place in its segment file of the first byte of the record at pos,
\* counted from 0
startOf(pos) == pos.BlockNumber * blockSize + pos.ChunkOffset

\* The place behind the last byte of the i-th record written: where the next
\* write to the same segment found the file to end, or the end of the file
endOf(i) ==
    IF i < Len(written) /\ written[i + 1].activeBefore = written[i].position.SegmentId
    THEN written[i + 1].sizeBefore
    ELSE Len(FileOf(written[i].position.SegmentId))

\* The byte that was altered is one of the framed bytes of the i-th record
alteredIn(i) ==
    /\ lastOp.ret = written[i].position.SegmentId
    /\ startOf(written[i].position) < lastOp.arg
    /\ lastOp.arg <= endOf(i)

\* C37: when a byte of a stored chunk (checksum, length, type or payload) is
\* altered on disk, the Read of the record that contains it returns
\* ErrInvalidCRC: it returns no payload and does not crash.
C37_AlteredChunkIsInvalidCRC ==
    \A i \in 1..Len(written) :
        (lastOp.op = "Read" /\ lastOp.positions = <<written[i].position>> /\ alteredIn(i))
        => lastOp.err = "ErrInvalidCRC"


\* C38: after every completed segment.Write, segment.Size() is
\* currentBlockNumber * blockSize + currentBlockSize computed without
\* wrap-around and is the length of the segment file, for files of every
\* length, those at and beyond the range of a uint32 included; and the byte
\* offset at which segment.Read reads a block is blockNumber * blockSize.
C38_SizeIsFileLength ==
    /\ (lastOp.op = "segment.Write" /\ lastOp.err = "nil") =>
          /\ Size(segs[activeSegment])
                = segs[activeSegment].currentBlockNumber * blockSize
                  + segs[activeSegment].currentBlockSize
          /\ Size(segs[activeSegment]) = files[activeSegment]
    /\ lastOp.op = "segment.Read" =>
          lastOp.ret = written[lastOp.arg].position.BlockNumber * blockSize


\* p comes before q in the lexicographic order of
\* (SegmentId, BlockNumber, ChunkOffset)
positionBelow(p, q) ==
    \/ p.SegmentId < q.SegmentId
    \/ /\ p.SegmentId = q.SegmentId
       /\ \/ p.BlockNumber < q.BlockNumber
          \/ p.BlockNumber = q.BlockNumber /\ p.ChunkOffset < q.ChunkOffset

\* The positions returned by successive successful writes are strictly
\* increasing
positionsIncrease ==
    \A i \in 1..Len(written) : \A j \in 1..Len(written) :
        i < j => positionBelow(written[i].position, written[j].position)

\* On the open WAL the segment files on disk are those of the ids
\* 1 .. active id
idsWithoutGaps == isOpen => DOMAIN files = 1..segs[activeSegment].id

\* The id of the active segment stays, or grows by exactly one when a call
\* rolls over
activeIdGrowsByOne ==
    \/ segs'[activeSegment'].id = segs[activeSegment].id
    \/ /\ segs'[activeSegment'].id = segs[activeSegment].id + 1
       /\ lastOp'.op \in {"Write", "OpenNewActiveSegment", "Open"}

\* C39: the positions returned by successive successful Write calls are
\* strictly increasing in the order (segment id, block number, chunk offset);
\* the id of the active segment never decreases and grows by exactly 1 at a
\* roll-over, and the segment ids of a WAL opened on an empty directory are
\* exactly 1 .. active id.
C39_PositionsIncrease ==
    /\ [](positionsIncrease /\ idsWithoutGaps)
    /\ [][activeIdGrowsByOne]_vars


\* The bytes-since-sync counter is the number of bytes of the active segment
\* that no fsync has covered
counterIsUnsynced == bytesWrite = unsynced(activeSegment)

\* A call that fsyncs the active segment has returned successfully
fsyncsActive ==
    /\ lastOp'.err = "nil"
    /\ \/ lastOp'.op \in {"Sync", "OpenNewActiveSegment"}
       \/ lastOp'.op = "Write" /\ (activeSegment' # activeSegment \/ synced' # synced)

\* C40: on the open WAL the bytes-since-sync counter equals the number of
\* bytes written to the active segment since that segment's most recent
\* fsync, and every call that fsyncs the active segment (the sync at the end
\* of Write, a roll-over, WAL.Sync, OpenNewActiveSegment) leaves it at 0 or,
\* for a roll-over, at the bytes written to the new segment.
C40_CounterIsBytesSinceSync ==
    /\ [](isOpen => counterIsUnsynced)
    /\ [][fsyncsActive => counterIsUnsynced']_vars

====
